---- MODULE Spec2Model ----
(***************************************************************************)
(* Model of the dual-channel logging core (customLoggerService,            *)
(* summaryLogService), of its masking engine (cloneAndMask,                *)
(* MaskingService) and of the dispatchers that own its scopes              *)
(* (handler.ServeHTTP, KafkaClient.handleSubscription, Context.JSON).      *)
(*                                                                         *)
(* A scope is one customLoggerService created by newContext.  The two      *)
(* sinks (detailLog, summaryLog) are shared by all scopes; every call a    *)
(* scope makes on a sink appends one entry to `sink`.                      *)
(***************************************************************************)
EXTENDS Integers, Sequences, FiniteSets, TLC

VARIABLES
    loggers,   \* scope -> customLoggerService (logDto, summaryLogAdditionalInfo), or NoLogger
    sink,      \* the calls received by detailLog / summaryLog, in order
    calls,     \* scope -> the API calls made on the scope so far (history)
    disp,      \* the dispatcher serving the request / message (ServeHTTP, handleSubscription)
    hnd,       \* the handler function run by the dispatcher
    rw,        \* the writes received by the http.ResponseWriter, in order
    held,      \* the payload a caller holds, its masking rules, and what cloneAndMask made of them
    word,      \* a string handed to MaskingService.Masking, and the string it returned
    req,       \* the inbound request or message, and the Request / Message built from it
    order,     \* one run of orderService.CreateOrder and its effects
    client     \* the kafkaClient: its connection, its reader map, its goroutines

vars == <<loggers, sink, calls, disp, hnd, rw, held, word, req, order, client>>

-----------------------------------------------------------------------------
(* Bounds *)

\* API calls made on the scope of Spec after its creation
MaxCalls == 3
\* API calls made on the two scopes of SpecIso, together
MaxIsoCalls == 5
\* Flush calls made on the scope of SpecFlush
MaxFlushes == 1
\* logger calls a handler makes before it returns (SpecDispatch)
MaxHandlerCalls == 2

-----------------------------------------------------------------------------
(* Values *)

Scopes == {"s1", "s2"}

NoLogger == [created |-> FALSE]

\* json.Marshal of the EventSummary list, or the payload of a detail line.
\* text: what toJSON returned; events: the rendered Sequences.
NoMessage == [text |-> "", events |-> <<>>]

\* trace.SpanFromContext(c).SpanContext().TraceID().String() of a context without span
NoSpanTraceID == "00000000000000000000000000000000"

EmptyMetadata == [Source |-> "", Broker |-> "", TraceId |-> ""]

HEALTHY == "healthy"
NORMAL == "normal"

\* LogDto{} : every field at its zero value
EmptyLogDto ==
    [ LogType             |-> "",
      ServiceName         |-> "",
      ComponentVersion    |-> "",
      Instance            |-> "",
      Action              |-> "",
      ActionDescription   |-> "",
      SubAction           |-> "",
      Timestamp           |-> FALSE,
      Sequences           |-> <<>>,
      Metadata            |-> EmptyMetadata,
      RequestId           |-> "",
      SessionId           |-> "",
      Message             |-> NoMessage,
      AppResult           |-> "",
      AppResultCode       |-> "",
      AppResultHttpStatus |-> "",
      AppResultType       |-> "",
      Severity            |-> "" ]

\* conf.App.Name of the services that embed the core
ServiceNames == {"order-service", "product-service"}

\* LoggerAction values handed to Info / Debug / Error
\* (logger.NewOutbound("client", ""), DB_REQUEST(DB_CREATE, "insert_order"))
LoggerActions ==
    { [Action |-> "[OUTBOUND]",   ActionDescription |-> "client",       SubAction |-> ""],
      [Action |-> "[DB_REQUEST]", ActionDescription |-> "insert_order", SubAction |-> "CREATE"] }

\* payloads of a detail line: a string (ctx.JSON(200, "OK")) or nil (ctx.JSON(204, nil))
NilData == "<nil>"
Payloads == {"OK", NilData}

\* LogEventTag values handed to SetSummary
LogEventTags ==
    { [Node |-> "mongo", Command |-> "insert_order", Code |-> "200", Description |-> ""],
      [Node |-> "mongo", Command |-> "insert_order", Code |-> "500", Description |-> "error"],
      [Node |-> "mongo", Command |-> "",             Code |-> "200", Description |-> ""],
      [Node |-> "kafka", Command |-> "insert_order", Code |-> "200", Description |-> ""] }

\* status codes the handlers pass to Context.JSON, hence to End: one success and one
\* failure expandResultCode has a case for, and one it has none for (201)
StatusCodes == {200, 201, 500}

\* final messages handed to End
EndMessages == {"", "done"}

-----------------------------------------------------------------------------
(* Pure helpers of log-service.go *)

\* toJSON: a string is returned as it is, nil gives the empty string
toJSON(v) == IF v = NilData THEN "" ELSE v

\* strings.Repeat("0", n), for n >= 0
RECURSIVE RepeatZero(_)
RepeatZero(n) == IF n <= 0 THEN "" ELSE "0" \o RepeatZero(n - 1)

\* ConvertTTTTT: strings.Repeat panics on a negative count
ConvertTTTTT(input) ==
    IF 5 - Len(input) < 0
    THEN [panic |-> TRUE, value |-> ""]
    ELSE [panic |-> FALSE, value |-> input \o RepeatZero(5 - Len(input))]

\* mapHTTPStatusToSnakeCaseText: toSnakeCase(http.StatusText(code)), "unknown" without a text
mapHTTPStatusToSnakeCaseText(code) ==
    CASE code = 200 -> "ok"
      [] code = 201 -> "created"
      [] code = 204 -> "no_content"
      [] code = 400 -> "bad_request"
      [] code = 404 -> "not_found"
      [] code = 500 -> "internal_server_error"
      [] OTHER      -> "unknown"

\* the status codes expandResultCode has a case for
KnownStatus == {200, 400, 401, 403, 404, 500, 503, 504, 409, 429, 501}

expandResultCode(code) ==
    LET rc == ConvertTTTTT(ToString(code)) IN
    [ panic      |-> rc.panic,
      StatusCode |-> IF code \in KnownStatus THEN ToString(code) ELSE "Error",
      ResultCode |-> rc.value,
      Message    |-> IF code = 200 THEN "Success" ELSE mapHTTPStatusToSnakeCaseText(code) ]

-----------------------------------------------------------------------------
(* customLoggerService *)

\* NewCustomLogger followed by Init(customLog), as newContext does
NewCustomLogger(customLog) ==
    [ created                  |-> TRUE,
      logDto                   |-> customLog,
      summaryLogAdditionalInfo |-> <<>> ]

\* the LogDto newContext builds: w = nil for a consumed message
customLogOf(name, isHTTP) ==
    [EmptyLogDto EXCEPT
        !.ServiceName      = name,
        !.LogType          = "detail",
        !.ComponentVersion = "1.0.0",
        !.Instance         = "host",
        !.Metadata         = [Source  |-> IF isHTTP THEN "api" ELSE "event-source",
                              Broker  |-> IF isHTTP THEN "none" ELSE "kafka:9092",
                              TraceId |-> NoSpanTraceID]]

\* json.Marshal(logDto): Sequences carries the tag json:"-"
Serialize(dto) ==
    [k \in (DOMAIN dto) \ {"Sequences"} |-> dto[k]]

\* toStr, without masking options: cloneAndMask returns data at once
toStrDto(dto, action, data) ==
    [dto EXCEPT
        !.Action            = action.Action,
        !.ActionDescription = action.ActionDescription,
        !.SubAction         = action.SubAction,
        !.Message           = [text |-> toJSON(data), events |-> <<>>],
        !.Timestamp         = TRUE]

AfterEmitKeepsSubAction(dto) ==
    [dto EXCEPT !.Metadata = EmptyMetadata]

\* what Info / Debug / Error leave in logDto after the line is written
AfterEmit(dto) ==
    [dto EXCEPT !.Metadata = EmptyMetadata, !.SubAction = ""]

\* Update: sets the field of logDto with that name, when there is one
UpdateDto(dto, key, value) ==
    IF key \in DOMAIN dto THEN [dto EXCEPT ![key] = value] ELSE dto

\* the command SetSummary records a tag under
CommandOf(dto, param) ==
    IF param.Command = "" /\ dto.ActionDescription # ""
    THEN dto.ActionDescription
    ELSE param.Command

SequenceResultOf(param) == [Result |-> param.Code, Desc |-> param.Description]

\* index of the first Sequence with that node and command, 0 when there is none
FirstMatch(list, node, command) ==
    LET hits == {i \in 1..Len(list) : list[i].Node = node /\ list[i].Command = command}
    IN  IF hits = {} THEN 0 ELSE CHOOSE i \in hits : \A j \in hits : i <= j

SetSummaryAlwaysAppends(list, dto, param) ==
    Append(list, [Node    |-> param.Node,
                  Command |-> CommandOf(dto, param),
                  Result  |-> <<SequenceResultOf(param)>>])

\* SetSummary on summaryLogAdditionalInfo
SetSummaryList(list, dto, param) ==
    LET command == CommandOf(dto, param)
        i       == FirstMatch(list, param.Node, command)
    IN  IF i # 0
        THEN [list EXCEPT ![i].Result = Append(@, SequenceResultOf(param))]
        ELSE Append(list, [Node    |-> param.Node,
                           Command |-> command,
                           Result  |-> <<SequenceResultOf(param)>>])

-----------------------------------------------------------------------------
(* summaryLogService *)

\* the Stack values Flush can be handed; End fills Code, Message and Status only
StackOf(code, status, resultType, severity, message) ==
    [Code |-> code, Status |-> status, ResultType |-> resultType,
     Severity |-> severity, Message |-> message]

\* strings.ToLower, on the result types handed to Flush
ToLower(s) == IF s \in {"OK", "Ok", "ok"} THEN "ok" ELSE s

ResolveDefaultOnly(explicit, earlier, default) == default

\* the precedence Flush applies to the result code and the http status
Resolve(explicit, earlier, default) ==
    IF explicit # "" THEN explicit
    ELSE IF earlier # "" THEN earlier
    ELSE default

\* the EventSummary list Flush renders into the message
EventsOf(sequences) ==
    [i \in 1..Len(sequences) |->
        [Event  |-> sequences[i].Node \o "." \o sequences[i].Command,
         Result |-> sequences[i].Result]]

\* clearNonSummaryLogParam
clearNonSummaryLogParam(dto) ==
    [dto EXCEPT
        !.Action            = "",
        !.Timestamp         = FALSE,
        !.ActionDescription = "",
        !.SubAction         = "",
        !.Metadata          = EmptyMetadata]

\* the logDto Flush serializes, for the customLoggerService c and the Stack data
\* (NewSummaryLogService and Init copy c.logDto)
FlushDto(c, data) ==
    LET d0 == [c.logDto EXCEPT
                 !.LogType             = "summary",
                 !.AppResultCode       = Resolve(data.Code, c.logDto.AppResultCode, "20000"),
                 !.AppResultHttpStatus = Resolve(data.Status, c.logDto.AppResultHttpStatus, "200"),
                 !.AppResultType       = IF c.logDto.AppResultType # ""
                                         THEN c.logDto.AppResultType ELSE HEALTHY,
                 !.Severity            = IF c.logDto.Severity # ""
                                         THEN c.logDto.Severity ELSE NORMAL,
                 !.AppResult           = IF data.ResultType # ""
                                         THEN (IF ToLower(data.ResultType) = "ok"
                                               THEN "Success" ELSE data.ResultType)
                                         ELSE (IF c.logDto.AppResult # ""
                                               THEN c.logDto.AppResult ELSE "Success")]
        d1 == IF Len(c.summaryLogAdditionalInfo) > 0
              THEN [d0 EXCEPT
                      !.Message   = [text |-> "",
                                     events |-> EventsOf(d0.Sequences \o c.summaryLogAdditionalInfo)],
                      !.Sequences = <<>>]
              ELSE d0
    IN  clearNonSummaryLogParam(d1)

\* the customLoggerService after Flush: the accumulated Sequences are dropped
FlushLogger(c) == [c EXCEPT !.summaryLogAdditionalInfo = <<>>]

-----------------------------------------------------------------------------
(* The calls of one scope *)

\* one call received by a sink; late: made after the dispatcher had returned
Line(s, which, level, dto) ==
    [scope |-> s, sink |-> which, level |-> level, line |-> Serialize(dto),
     late |-> disp.pc = "returned"]

Call(op, arg, key) == [op |-> op, arg |-> arg, key |-> key]

\* the state the logger calls act on, and its update
Cur == [loggers |-> loggers, sink |-> sink, calls |-> calls]

Becomes(st) ==
    /\ loggers' = st.loggers
    /\ sink' = st.sink
    /\ calls' = st.calls

Noted(st, s, call) == [st EXCEPT !.calls[s] = Append(@, call)]

\* newContext: a fresh customLoggerService, initialised with the identity of the service
DoNewContext(st, s, name, isHTTP) ==
    Noted([st EXCEPT !.loggers[s] = NewCustomLogger(customLogOf(name, isHTTP))],
          s, Call("newContext", name, isHTTP))

NewContext(s, name, isHTTP) ==
    /\ ~loggers[s].created
    /\ Becomes(DoNewContext(Cur, s, name, isHTTP))

\* Info, Debug and Error: toStr, one call of the detail sink, reset of metadata and sub-action
DoEmit(st, s, op, level, action, data) ==
    LET dto == toStrDto(st.loggers[s].logDto, action, data)
    IN  Noted([st EXCEPT !.sink = Append(@, Line(s, "detail", level, dto)),
                         !.loggers[s].logDto = AfterEmit(dto)],
              s, Call(op, action, data))

Info(s, action, data) ==
    /\ loggers[s].created
    /\ Becomes(DoEmit(Cur, s, "Info", "info", action, data))

Debug(s, action, data) ==
    /\ loggers[s].created
    /\ Becomes(DoEmit(Cur, s, "Debug", "debug", action, data))

ErrorWritesInfoLevel(s, action, data) ==
    /\ loggers[s].created
    /\ Becomes(DoEmit(Cur, s, "Error", "info", action, data))

Error(s, action, data) ==
    /\ loggers[s].created
    /\ Becomes(DoEmit(Cur, s, "Error", "error", action, data))

DoSetSummary(st, s, param) ==
    LET c == st.loggers[s]
    IN  Noted([st EXCEPT !.loggers[s].summaryLogAdditionalInfo =
                            SetSummaryList(@, c.logDto, param)],
              s, Call("SetSummary", param, CommandOf(c.logDto, param)))

SetSummaryOnSharedList(s, param) ==
    LET c  == loggers[s]
        st == Noted(Cur, s, Call("SetSummary", param, CommandOf(c.logDto, param)))
    IN  /\ c.created
        /\ Becomes([st EXCEPT !.loggers =
                        [x \in Scopes |->
                            IF loggers[x].created
                            THEN [loggers[x] EXCEPT !.summaryLogAdditionalInfo =
                                     SetSummaryList(@, c.logDto, param)]
                            ELSE loggers[x]]])

SetSummary(s, param) ==
    /\ loggers[s].created
    /\ Becomes(DoSetSummary(Cur, s, param))

Update(s, key, value) ==
    /\ loggers[s].created
    /\ loggers' = [loggers EXCEPT ![s].logDto = UpdateDto(@, key, value)]
    /\ UNCHANGED <<sink, calls>>

\* Flush of a summaryLogService built on the scope (NewSummaryLogService, Init, Flush):
\* one call of the summary sink
DoFlush(st, s, data) ==
    LET c == st.loggers[s]
    IN  [st EXCEPT !.sink = Append(@, Line(s, "summary", "info", FlushDto(c, data))),
                   !.loggers[s] = FlushLogger(c)]

Flush(s, data) ==
    /\ loggers[s].created
    /\ Becomes(Noted(DoFlush(Cur, s, data), s, Call("Flush", data, loggers[s].logDto)))

\* End: expandResultCode, Flush, reset of logDto.
\* A panic of ConvertTTTTT leaves the scope as it was.
DoEnd(st, s, code, message) ==
    LET result == expandResultCode(code)
        stack  == StackOf(result.ResultCode, result.StatusCode, "", "",
                          IF message = "" THEN result.Message ELSE message)
        noted  == Noted(st, s, Call("End", code, message))
    IN  IF result.panic
        THEN noted
        ELSE [DoFlush(noted, s, stack) EXCEPT !.loggers[s].logDto = EmptyLogDto]

End(s, code, message) ==
    /\ loggers[s].created
    /\ Becomes(DoEnd(Cur, s, code, message))

-----------------------------------------------------------------------------
(* Spec: every call sequence on one scope *)

\* no request is being served: ServeHTTP / handleSubscription not entered
IdleDispatcher ==
    [ pc        |-> "idle",
      kind      |-> "none",     \* "http" (ServeHTTP) or "kafka" (handleSubscription)
      err       |-> "nil",      \* the err variable of the dispatcher
      done      |-> FALSE,      \* channel done is closed
      panicked  |-> FALSE,      \* channel panicked is closed
      ctxErr    |-> "nil",      \* c.Err(): nil until c.Context is done
      exit      |-> "none",     \* the case of the select that was taken
      early     |-> FALSE,      \* the handler had not finished when the select was left
      committed |-> FALSE,      \* msg.Commit() was called
      lateErr   |-> FALSE ]     \* err was assigned after ServeHTTP had returned

IdleHandler == [pc |-> "idle", n |-> 0, ret |-> "nil"]

\* no payload is held, no string was handed to Masking
NothingHeld == [called |-> FALSE]

NoWord == [done |-> FALSE]

\* no request was received, CreateOrder was not called, no kafkaClient was made
NoRequest == [made |-> FALSE]

NoOrder == [pc |-> "idle"]

NoClient == [made |-> FALSE]

Init ==
    /\ loggers = [s \in Scopes |-> NoLogger]
    /\ sink = <<>>
    /\ calls = [s \in Scopes |-> <<>>]
    /\ disp = IdleDispatcher
    /\ hnd = IdleHandler
    /\ rw = <<>>
    /\ held = NothingHeld
    /\ word = NoWord
    /\ req = NoRequest
    /\ order = NoOrder
    /\ client = NoClient

\* the calls made on s after newContext
NCalls(s) == IF calls[s] = <<>> THEN 0 ELSE Len(calls[s]) - 1

\* the dispatcher and the masking engine play no part in Spec
NoDispatch == UNCHANGED <<disp, hnd, rw, held, word, req, order, client>>

Budget(s) == NCalls(s) < MaxCalls

CreateScope ==
    /\ \E name \in ServiceNames, isHTTP \in BOOLEAN : NewContext("s1", name, isHTTP)
    /\ NoDispatch

CallInfo ==
    /\ Budget("s1")
    /\ \E a \in LoggerActions, d \in Payloads : Info("s1", a, d)
    /\ NoDispatch

CallDebug ==
    /\ Budget("s1")
    /\ \E a \in LoggerActions, d \in Payloads : Debug("s1", a, d)
    /\ NoDispatch

CallError ==
    /\ Budget("s1")
    /\ \E a \in LoggerActions, d \in Payloads : Error("s1", a, d)
    /\ NoDispatch

CallSetSummary ==
    /\ Budget("s1")
    /\ \E t \in LogEventTags : SetSummary("s1", t)
    /\ NoDispatch

CallEnd ==
    /\ Budget("s1")
    /\ \E code \in StatusCodes, m \in EndMessages : End("s1", code, m)
    /\ NoDispatch

Next ==
    \/ CreateScope
    \/ CallInfo
    \/ CallDebug
    \/ CallError
    \/ CallSetSummary
    \/ CallEnd

Spec == Init /\ [][Next]_vars

-----------------------------------------------------------------------------
(* History helpers used by the properties *)

DetailOps == {"Info", "Debug", "Error"}

LevelOf(op) == CASE op = "Info" -> "info" [] op = "Debug" -> "debug" [] op = "Error" -> "error"

\* the calls of s with that operation
CallsOf(s, ops) == SelectSeq(calls[s], LAMBDA c : c.op \in ops)

\* the sink calls made by s
LinesOf(s) == SelectSeq(sink, LAMBDA l : l.scope = s)

SummaryLinesOf(s) == SelectSeq(sink, LAMBDA l : l.scope = s /\ l.sink = "summary")

\* position of the last End of s, 0 when s has not ended
LastEnd(s) ==
    LET ends == {i \in 1..Len(calls[s]) : calls[s][i].op = "End"}
    IN  IF ends = {} THEN 0 ELSE CHOOSE i \in ends : \A j \in ends : j <= i

\* the SetSummary calls of s since its last End
TagCalls(s) ==
    SelectSeq(SubSeq(calls[s], LastEnd(s) + 1, Len(calls[s])), LAMBDA c : c.op = "SetSummary")

\* the (node, command) pairs of a call list, each once, in order of first occurrence
RECURSIVE FirstOccurrences(_)
FirstOccurrences(cs) ==
    IF cs = <<>> THEN <<>>
    ELSE LET k    == <<cs[Len(cs)].arg.Node, cs[Len(cs)].key>>
             init == FirstOccurrences(SubSeq(cs, 1, Len(cs) - 1))
         IN  IF \E i \in 1..Len(init) : init[i] = k THEN init ELSE Append(init, k)

\* the results recorded under one pair, in call order
ResultsUnder(cs, k) ==
    LET mine == SelectSeq(cs, LAMBDA c : <<c.arg.Node, c.key>> = k)
    IN  [i \in 1..Len(mine) |-> [Result |-> mine[i].arg.Code, Desc |-> mine[i].arg.Description]]

\* the list a group-by of the calls gives
GroupedByPair(cs) ==
    LET ks == FirstOccurrences(cs)
    IN  [i \in 1..Len(ks) |-> [Node |-> ks[i][1], Command |-> ks[i][2], Result |-> ResultsUnder(cs, ks[i])]]

RECURSIVE TotalResults(_)
TotalResults(list) ==
    IF list = <<>> THEN 0 ELSE Len(Head(list).Result) + TotalResults(Tail(list))

-----------------------------------------------------------------------------
(* Properties of the summary aggregation *)

\* C1: the accumulated list holds at most one Sequence per (node, command); it is the
\* group-by of the SetSummary calls made on the scope: one Sequence per pair in order of
\* first occurrence, each with the results of its calls in call order, and as many
\* results in total as there were calls.  A tag with a non-empty command is recorded
\* under the pair it names.
C1_OneSequencePerPair ==
    \A s \in Scopes : loggers[s].created =>
        LET list == loggers[s].summaryLogAdditionalInfo
            cs   == TagCalls(s)
        IN  /\ \A i, j \in 1..Len(list) :
                   (list[i].Node = list[j].Node /\ list[i].Command = list[j].Command) => i = j
            /\ list = GroupedByPair(cs)
            /\ TotalResults(list) = Len(cs)
            /\ \A i \in 1..Len(cs) : cs[i].arg.Command # "" => cs[i].key = cs[i].arg.Command

\* three calls, the first and the third with the same pair: two Sequences, the first
\* with two results
C1_Witness ==
    LET list == loggers["s1"].summaryLogAdditionalInfo
        cs   == IF loggers["s1"].created THEN TagCalls("s1") ELSE <<>>
    IN  /\ Len(cs) = 3
        /\ cs[1].arg = cs[3].arg
        /\ cs[1].arg.Node # cs[2].arg.Node
        /\ Len(list) = 2
        /\ Len(list[1].Result) = 2

\* the result code End(code) is to give: the code, padded with zeros to five characters
PaddedCode(code) ==
    CASE code = 200 -> "20000"
      [] code = 201 -> "20100"
      [] code = 500 -> "50000"

NeverTagged(s) == CallsOf(s, {"SetSummary"}) = <<>>

C3_NoSecondSummary ==
    \A s \in Scopes : Len(SummaryLinesOf(s)) <= 1

\* C7: when n detail calls are followed by one End, the scope has written n detail
\* lines, in call order and each at the level of its call, and then one summary line
C7_DetailThenSummary ==
    \A s \in Scopes :
        (Len(CallsOf(s, {"End"})) = 1 /\ calls[s][Len(calls[s])].op = "End") =>
            LET ds    == CallsOf(s, DetailOps)
                lines == LinesOf(s)
                n     == Len(ds)
            IN  /\ Len(lines) = n + 1
                /\ \A i \in 1..n :
                       /\ lines[i].sink = "detail"
                       /\ lines[i].level = LevelOf(ds[i].op)
                       /\ lines[i].line.Action = ds[i].arg.Action
                       /\ lines[i].line.ActionDescription = ds[i].arg.ActionDescription
                /\ lines[n + 1].sink = "summary"
                /\ sink[Len(sink)] = lines[n + 1]

\* an Error call, then a Debug call, then End
C7_Witness ==
    /\ Len(calls["s1"]) = 4
    /\ calls["s1"][2].op = "Error"
    /\ calls["s1"][3].op = "Debug"
    /\ calls["s1"][2].arg # calls["s1"][3].arg
    /\ calls["s1"][4].op = "End"
    /\ Len(LinesOf("s1")) = 3

\* position in calls[s] of the k-th End of s, 0 for k = 0
EndPosition(s, k) ==
    IF k = 0 THEN 0
    ELSE CHOOSE i \in 1..Len(calls[s]) :
            /\ calls[s][i].op = "End"
            /\ Cardinality({j \in 1..i : calls[s][j].op = "End"}) = k

\* the SetSummary calls s made between its (k-1)-th and its k-th End
TagsOfEnd(s, k) ==
    SelectSeq(SubSeq(calls[s], EndPosition(s, k - 1) + 1, EndPosition(s, k) - 1),
              LAMBDA c : c.op = "SetSummary")

\* C11: the message of every summary record is the rendering of the Sequences the scope
\* accumulated for it (event = node.command with its results, in first-recorded order)
\* and nothing else: no payload of an earlier detail line is left in it; action, action
\* description, sub-action, timestamp and metadata are empty in the record
C11_SummaryMessageIsRendering ==
    \A s \in Scopes :
        \A k \in 1..Len(SummaryLinesOf(s)) :
            LET line == SummaryLinesOf(s)[k].line
            IN  /\ line.Message.events = EventsOf(GroupedByPair(TagsOfEnd(s, k)))
                /\ line.Message.text = ""
                /\ line.Action = ""
                /\ line.ActionDescription = ""
                /\ line.SubAction = ""
                /\ line.Timestamp = FALSE
                /\ line.Metadata = EmptyMetadata

\* C21: after every Info, Debug or Error the record of the scope has empty metadata and
\* an empty sub-action, so that every detail line carries the sub-action of its own call
\* and no line after the first carries metadata; until End, the service name, log type,
\* component version and instance given at Init are in the record, whatever the number
\* of emissions and SetSummary calls
C21_TransientResetIdentityKept ==
    \A s \in Scopes : (loggers[s].created /\ CallsOf(s, {"End"}) = <<>>) =>
        LET own   == customLogOf(calls[s][1].arg, calls[s][1].key)
            dto   == loggers[s].logDto
            ds    == CallsOf(s, DetailOps)
            lines == LinesOf(s)
        IN  /\ calls[s][Len(calls[s])].op \in DetailOps =>
                   (dto.Metadata = EmptyMetadata /\ dto.SubAction = "")
            /\ \A i \in 1..Len(lines) :
                   /\ lines[i].line.SubAction = ds[i].arg.SubAction
                   /\ i > 1 => lines[i].line.Metadata = EmptyMetadata
            /\ dto.ServiceName = own.ServiceName
            /\ dto.LogType = own.LogType
            /\ dto.ComponentVersion = own.ComponentVersion
            /\ dto.Instance = own.Instance

\* an emission with a sub-action, a tag, then an emission without sub-action
C21_Witness ==
    /\ Len(calls["s1"]) = 4
    /\ calls["s1"][2].op \in DetailOps
    /\ calls["s1"][2].arg.SubAction = "CREATE"
    /\ calls["s1"][3].op = "SetSummary"
    /\ calls["s1"][4].op \in DetailOps
    /\ calls["s1"][4].arg.SubAction = ""
    /\ sink[1].line.Metadata # EmptyMetadata
    /\ sink[2].line.SubAction = ""

-----------------------------------------------------------------------------
(* SpecIso: two scopes used concurrently *)

IsoTags ==
    { [Node |-> "mongo", Command |-> "insert_order", Code |-> "200", Description |-> ""],
      [Node |-> "kafka", Command |-> "publish",      Code |-> "500", Description |-> "error"] }

IsoAction == [Action |-> "[OUTBOUND]", ActionDescription |-> "client", SubAction |-> ""]

IsoBudget == NCalls("s1") + NCalls("s2") < MaxIsoCalls

IsoCreate ==
    /\ \E s \in Scopes, name \in ServiceNames : NewContext(s, name, TRUE)
    /\ NoDispatch

IsoInfo ==
    /\ IsoBudget
    /\ \E s \in Scopes : Info(s, IsoAction, "OK")
    /\ NoDispatch

IsoSetSummary ==
    /\ IsoBudget
    /\ \E s \in Scopes, t \in IsoTags : SetSummary(s, t)
    /\ NoDispatch

IsoEnd ==
    /\ IsoBudget
    /\ \E s \in Scopes : End(s, 200, "")
    /\ NoDispatch

NextIso ==
    \/ IsoCreate
    \/ IsoInfo
    \/ IsoSetSummary
    \/ IsoEnd

SpecIso == Init /\ [][NextIso]_vars

\* the calls of s before its first End
BeforeFirstEnd(s) ==
    LET ends == {i \in 1..Len(calls[s]) : calls[s][i].op = "End"}
    IN  IF ends = {} THEN calls[s]
        ELSE SubSeq(calls[s], 1, (CHOOSE i \in ends : \A j \in ends : i <= j) - 1)

\* C9: whatever the interleaving of the calls of two scopes, the summary record a scope
\* writes at its End renders exactly the tags recorded on that scope, in that scope's
\* call order, and carries the service name, version and instance given to that scope;
\* every detail line written before carries them too
C9_ScopesIsolated ==
    \A s \in Scopes : loggers[s].created =>
        LET mine  == BeforeFirstEnd(s)
            tags  == SelectSeq(mine, LAMBDA c : c.op = "SetSummary")
            own   == customLogOf(calls[s][1].arg, calls[s][1].key)
            lines == LinesOf(s)
            nd    == Len(SelectSeq(mine, LAMBDA c : c.op \in DetailOps))
        IN  /\ \A i \in 1..Len(lines) : i <= nd =>
                   /\ lines[i].sink = "detail"
                   /\ lines[i].line.ServiceName = own.ServiceName
                   /\ lines[i].line.Instance = own.Instance
            /\ Len(lines) > nd =>
                   /\ lines[nd + 1].sink = "summary"
                   /\ lines[nd + 1].line.Message.events = EventsOf(GroupedByPair(tags))
                   /\ lines[nd + 1].line.ServiceName = own.ServiceName
                   /\ lines[nd + 1].line.ComponentVersion = own.ComponentVersion
                   /\ lines[nd + 1].line.Instance = own.Instance

\* both scopes recorded a tag while the other was live, the tags differ, and both ended
C9_Witness ==
    /\ Len(SummaryLinesOf("s1")) = 1
    /\ Len(SummaryLinesOf("s2")) = 1
    /\ sink[1].scope = "s1"
    /\ Len(sink[1].line.Message.events) = 1
    /\ Len(sink[2].line.Message.events) = 1
    /\ sink[1].line.Message.events # sink[2].line.Message.events
    /\ sink[1].line.ServiceName # sink[2].line.ServiceName
    /\ calls["s2"][2].op = "SetSummary"
    /\ calls["s1"][2].op = "SetSummary"

-----------------------------------------------------------------------------
(* SpecFlush: Flush applied to every Stack, on every earlier state of the record *)

ResultFields == {"AppResultCode", "AppResultHttpStatus", "AppResultType", "Severity"}

\* keys and values handed to Update
UpdateKeys == ResultFields \cup {"NoSuchField"}
UpdateValues == {"", "earlier"}

Stacks ==
    { StackOf(code, status, resultType, severity, "") :
        code \in {"", "40000"}, status \in {"", "400"},
        resultType \in {"", "OK", "degraded"}, severity \in {"", "critical"} }

InitFlush ==
    /\ loggers = [s \in Scopes |->
                    IF s = "s1" THEN NewCustomLogger(customLogOf("order-service", TRUE))
                    ELSE NoLogger]
    /\ sink = <<>>
    /\ calls = [s \in Scopes |-> <<>>]
    /\ disp = IdleDispatcher
    /\ hnd = IdleHandler
    /\ rw = <<>>
    /\ held = NothingHeld
    /\ word = NoWord
    /\ req = NoRequest
    /\ order = NoOrder
    /\ client = NoClient

CallUpdate ==
    /\ \E k \in UpdateKeys, v \in UpdateValues : Update("s1", k, v)
    /\ NoDispatch

CallFlush ==
    /\ Len(sink) < MaxFlushes
    /\ \E data \in Stacks : Flush("s1", data)
    /\ NoDispatch

NextFlush ==
    \/ CallUpdate
    \/ CallFlush

SpecFlush == InitFlush /\ [][NextFlush]_vars

\* explicit value, else the value set earlier, else the default
Precedence(explicit, earlier, default) ==
    CASE explicit # "" -> explicit
      [] earlier # ""  -> earlier
      [] OTHER         -> default

\* C10: each of result code, http status, result type and severity of the record Flush
\* writes is the value of the Stack when non-empty, else the value set earlier on the
\* scope's record when non-empty, else the default
C10_FlushPrecedence ==
    \A i \in 1..Len(sink) :
        LET data    == calls["s1"][i].arg
            earlier == calls["s1"][i].key
            out     == sink[i].line
        IN  /\ out.AppResultCode = Precedence(data.Code, earlier.AppResultCode, "20000")
            /\ out.AppResultHttpStatus = Precedence(data.Status, earlier.AppResultHttpStatus, "200")
            /\ out.AppResultType = Precedence(data.ResultType, earlier.AppResultType, HEALTHY)
            /\ out.Severity = Precedence(data.Severity, earlier.Severity, NORMAL)

-----------------------------------------------------------------------------
(* SpecDispatch: one HTTP request (handler.ServeHTTP) or one consumed message *)
(* (KafkaClient.handleSubscription), and the handler it runs                 *)

\* c.Err() once c.Context is done
ContextErrors == {"deadline exceeded", "canceled"}

\* codes and bodies the handlers hand to Context.JSON
JSONCodes == {200, 500}

NewOutbound == [Action |-> "[OUTBOUND]", ActionDescription |-> "client", SubAction |-> ""]

NewInbound == [Action |-> "[INBOUND]", ActionDescription |-> "create order", SubAction |-> ""]

\* one call received by the ResponseWriter
Written(kind, value) == [kind |-> kind, value |-> value, late |-> disp.pc = "returned"]

\* ServeHTTP up to the select: newContext(w, ...), the handler goroutine is started
ServeHTTP ==
    /\ disp.pc = "idle"
    /\ \E name \in ServiceNames : Becomes(DoNewContext(Cur, "s1", name, TRUE))
    /\ disp' = [disp EXCEPT !.pc = "select", !.kind = "http"]
    /\ hnd' = [hnd EXCEPT !.pc = "running"]
    /\ UNCHANGED rw
    /\ UNCHANGED <<held, word, req, order, client>>

\* handleSubscription up to the call of the handler: newContext(nil, msg, ...)
HandleSubscription ==
    /\ disp.pc = "idle"
    /\ \E name \in ServiceNames : Becomes(DoNewContext(Cur, "s1", name, FALSE))
    /\ disp' = [disp EXCEPT !.pc = "handler", !.kind = "kafka"]
    /\ hnd' = [hnd EXCEPT !.pc = "running"]
    /\ UNCHANGED rw
    /\ UNCHANGED <<held, word, req, order, client>>

\* the deadline of context.WithTimeout passes, or the request's context is cancelled
ContextDone ==
    /\ disp.pc = "select"
    /\ disp.ctxErr = "nil"
    /\ \E e \in ContextErrors : disp' = [disp EXCEPT !.ctxErr = e]
    /\ UNCHANGED <<loggers, sink, calls, hnd, rw>>
    /\ UNCHANGED <<held, word, req, order, client>>

\* case <-c.Context.Done()
SelectContextDone ==
    /\ disp.pc = "select"
    /\ disp.ctxErr # "nil"
    /\ disp' = [disp EXCEPT
                  !.pc    = "check",
                  !.exit  = "context done",
                  !.early = hnd.pc # "finished",
                  !.err   = IF disp.ctxErr = "deadline exceeded" THEN "request timed out" ELSE @]
    /\ UNCHANGED <<loggers, sink, calls, hnd, rw>>
    /\ UNCHANGED <<held, word, req, order, client>>

\* case <-done
SelectDone ==
    /\ disp.pc = "select"
    /\ disp.done
    /\ disp' = [disp EXCEPT !.pc = "check", !.exit = "done"]
    /\ UNCHANGED <<loggers, sink, calls, hnd, rw>>
    /\ UNCHANGED <<held, word, req, order, client>>

\* case <-panicked
SelectPanicked ==
    /\ disp.pc = "select"
    /\ disp.panicked
    /\ disp' = [disp EXCEPT !.pc = "check", !.exit = "panicked", !.err = "internal server error"]
    /\ UNCHANGED <<loggers, sink, calls, hnd, rw>>
    /\ UNCHANGED <<held, word, req, order, client>>

\* if err != nil { c.ResponseWriter.Write(err.Error()) }; ServeHTTP returns
CheckErr ==
    /\ disp.pc = "check"
    /\ rw' = IF disp.err # "nil" THEN Append(rw, Written("error text", disp.err)) ELSE rw
    /\ disp' = [disp EXCEPT !.pc = "returned"]
    /\ UNCHANGED <<loggers, sink, calls, hnd>>
    /\ UNCHANGED <<held, word, req, order, client>>

\* the handler logs a detail line: ctx.Log().Info(...) / ctx.Log().Error(...)
HandlerEmit ==
    /\ hnd.pc = "running"
    /\ hnd.n < MaxHandlerCalls
    /\ \/ Becomes(DoEmit(Cur, "s1", "Info", "info", NewInbound, "OK"))
       \/ Becomes(DoEmit(Cur, "s1", "Error", "error", NewInbound, "OK"))
    /\ hnd' = [hnd EXCEPT !.n = @ + 1]
    /\ UNCHANGED <<disp, rw>>
    /\ UNCHANGED <<held, word, req, order, client>>

\* the handler records a tag: ctx.Log().SetSummary(...)
HandlerSetSummary ==
    /\ hnd.pc = "running"
    /\ hnd.n < MaxHandlerCalls
    /\ \E t \in IsoTags : Becomes(DoSetSummary(Cur, "s1", t))
    /\ hnd' = [hnd EXCEPT !.n = @ + 1]
    /\ UNCHANGED <<disp, rw>>
    /\ UNCHANGED <<held, word, req, order, client>>

\* Context.JSON(code, v) with a ResponseWriter: header, body, Info, End; an encoding
\* error returns before Info and End
JSONOnWriter(code, v, encodes) ==
    LET called == Noted(Cur, "s1", Call("JSON", code, v))
        header == Append(rw, Written("header", code))
    IN  IF encodes
        THEN /\ rw' = Append(header, Written("body", v))
             /\ Becomes(DoEnd(DoEmit(called, "s1", "Info", "info", NewOutbound, v), "s1", code, ""))
             /\ hnd' = [hnd EXCEPT !.pc = "returning", !.ret = "nil"]
        ELSE /\ rw' = header
             /\ Becomes(called)
             /\ hnd' = [hnd EXCEPT !.pc = "returning", !.ret = "encode error"]

\* Context.JSON(code, v) without a ResponseWriter (consumed message): End only
JSONWithoutWriter(code, v) ==
    /\ rw' = rw
    /\ Becomes(DoEnd(Noted(Cur, "s1", Call("JSON", code, v)), "s1", code, ""))
    /\ hnd' = [hnd EXCEPT !.pc = "returning", !.ret = "nil"]

\* the handler ends with return ctx.JSON(code, v)
HandlerJSON ==
    /\ hnd.pc = "running"
    /\ \E code \in JSONCodes, v \in Payloads :
          IF disp.kind = "http"
          THEN \E encodes \in BOOLEAN : JSONOnWriter(code, v, encodes)
          ELSE JSONWithoutWriter(code, v)
    /\ UNCHANGED disp
    /\ UNCHANGED <<held, word, req, order, client>>

\* the handler panics; the deferred recover runs panicRecoveryHandler (close(panicked))
\* or panicRecovery (a line of the application log; the wrapper returns a nil error)
HandlerPanic ==
    /\ hnd.pc = "running"
    /\ hnd' = [hnd EXCEPT !.pc = "panicked", !.ret = "nil"]
    /\ disp' = IF disp.kind = "http" THEN [disp EXCEPT !.panicked = TRUE] ELSE disp
    /\ UNCHANGED <<loggers, sink, calls, rw>>
    /\ UNCHANGED <<held, word, req, order, client>>

\* err = h.function(c), in the handler goroutine
HandlerAssignErr ==
    /\ disp.kind = "http"
    /\ hnd.pc = "returning"
    /\ disp' = [disp EXCEPT !.err = hnd.ret, !.lateErr = @ \/ disp.pc = "returned"]
    /\ hnd' = [hnd EXCEPT !.pc = "assigned"]
    /\ UNCHANGED <<loggers, sink, calls, rw>>
    /\ UNCHANGED <<held, word, req, order, client>>

\* close(done), in the handler goroutine
HandlerCloseDone ==
    /\ hnd.pc = "assigned"
    /\ disp' = [disp EXCEPT !.done = TRUE]
    /\ hnd' = [hnd EXCEPT !.pc = "finished"]
    /\ UNCHANGED <<loggers, sink, calls, rw>>
    /\ UNCHANGED <<held, word, req, order, client>>

\* handleSubscription after the handler: an error is logged, otherwise msg.Commit()
AfterHandler ==
    /\ disp.kind = "kafka"
    /\ disp.pc = "handler"
    /\ hnd.pc \in {"returning", "panicked"}
    /\ disp' = [disp EXCEPT !.pc = "returned", !.err = hnd.ret, !.exit = "done",
                            !.committed = (hnd.ret = "nil")]
    /\ UNCHANGED <<loggers, sink, calls, hnd, rw>>
    /\ UNCHANGED <<held, word, req, order, client>>

NextDispatch ==
    \/ ServeHTTP
    \/ HandleSubscription
    \/ ContextDone
    \/ SelectContextDone
    \/ SelectDone
    \/ SelectPanicked
    \/ CheckErr
    \/ HandlerEmit
    \/ HandlerSetSummary
    \/ HandlerJSON
    \/ HandlerPanic
    \/ HandlerAssignErr
    \/ HandlerCloseDone
    \/ AfterHandler

SpecDispatch == Init /\ [][NextDispatch]_vars

\* a 500-class result
ServerErrorStatus == {"500", "501", "503", "504"}

\* C4: when the handler panicked and the dispatcher is done with the request or message,
\* the scope has emitted exactly one summary record, with a 500-class result
C4_PanicStillSummarised ==
    (hnd.pc = "panicked" /\ disp.pc = "returned") =>
        /\ Len(SummaryLinesOf("s1")) = 1
        /\ SummaryLinesOf("s1")[1].line.AppResultHttpStatus \in ServerErrorStatus

\* C5: when ServeHTTP left its select on the expired deadline before the handler had
\* finished, then, once ServeHTTP has returned and the handler has produced its response,
\* End has run exactly once on the scope and the summary record reports the failure,
\* not the success of the late response
C5_DeadlineFinalizesOnce ==
    ( /\ disp.pc = "returned"
      /\ disp.exit = "context done"
      /\ disp.ctxErr = "deadline exceeded"
      /\ disp.early
      /\ hnd.pc = "finished"
      /\ hnd.ret = "nil" ) =>
        /\ Len(CallsOf("s1", {"End"})) = 1
        /\ Len(SummaryLinesOf("s1")) = 1
        /\ SummaryLinesOf("s1")[1].line.AppResultHttpStatus # "200"

\* C6: every call of Context.JSON has run End exactly once, with or without a
\* ResponseWriter and whether or not the body could be encoded
C6_JSONEndsOnce ==
    /\ Len(CallsOf("s1", {"End"})) = Len(CallsOf("s1", {"JSON"}))
    /\ Len(SummaryLinesOf("s1")) = Len(CallsOf("s1", {"JSON"}))

\* C8: nothing is done for the scope after ServeHTTP has returned: no detail line, no
\* summary record, no write to the ResponseWriter, no assignment to err
C8_TerminalAfterReturn ==
    /\ \A i \in 1..Len(sink) : ~sink[i].late
    /\ \A i \in 1..Len(rw) : ~rw[i].late
    /\ ~disp.lateErr

-----------------------------------------------------------------------------
(* MaskingService (masking.go).  A Go string is the sequence of its characters. *)

MaskingTypes ==
    {"Msisdn", "Fbb", "CreditCard", "IDCard", "BankAccount",
     "Firstname", "Lastname", "Email", "Full", "Hashing"}

\* NewMaskingService: maskingDisplayCharacter
maskingDisplayCharacter == "X"

\* the characters censorEmail replaces: a-z, A-Z, 0-9
Alphanumeric ==
    {"a", "b", "c", "d", "e", "f", "g", "h", "i", "j", "k", "l", "m",
     "n", "o", "p", "q", "r", "s", "t", "u", "v", "w", "x", "y", "z",
     "A", "B", "C", "D", "E", "F", "G", "H", "I", "J", "K", "L", "M",
     "N", "O", "P", "Q", "R", "S", "T", "U", "V", "W", "X", "Y", "Z",
     "0", "1", "2", "3", "4", "5", "6", "7", "8", "9"}

\* strings.Repeat(c, n), for n >= 0
Repeat(c, n) == [i \in 1..n |-> c]

\* v[:n] and v[len(v)-n:]
Prefix(v, n) == SubSeq(v, 1, n)
Suffix(v, n) == SubSeq(v, Len(v) - n + 1, Len(v))

censorEmailMasksTheRest(email) ==
    IF Len(email) < 3 THEN email
    ELSE Prefix(email, 3) \o Repeat(maskingDisplayCharacter, Len(email) - 3)

censorEmail(email) ==
    IF Len(email) < 3 THEN email
    ELSE Prefix(email, 3) \o
         [i \in 1..(Len(email) - 3) |->
             IF email[i + 3] \in Alphanumeric THEN maskingDisplayCharacter ELSE email[i + 3]]

censorBankAccountNumber(accountNumber) ==
    LET length == Len(accountNumber)
    IN  IF length <= 7 THEN accountNumber
        ELSE Prefix(accountNumber, 4) \o Repeat(maskingDisplayCharacter, length - 7)
             \o Suffix(accountNumber, 3)

censorCreditCardId(creditCardId) ==
    LET length == Len(creditCardId)
    IN  IF length < 11 THEN creditCardId
        ELSE Prefix(creditCardId, 6) \o Repeat(maskingDisplayCharacter, length - 10)
             \o Suffix(creditCardId, 4)

censorPhoneNumberKeepsLastThree(phoneNumber) ==
    LET length == Len(phoneNumber)
    IN  IF length < 7 THEN phoneNumber
        ELSE Prefix(phoneNumber, 3) \o Repeat(maskingDisplayCharacter, length - 6)
             \o Suffix(phoneNumber, 3)

censorPhoneNumber(phoneNumber) ==
    LET length == Len(phoneNumber)
    IN  IF length < 7 THEN phoneNumber
        ELSE Prefix(phoneNumber, 3) \o Repeat(maskingDisplayCharacter, length - 7)
             \o Suffix(phoneNumber, 4)

censorFbbNumber(fiberNumber) ==
    LET length == Len(fiberNumber)
    IN  IF length < 6 THEN fiberNumber
        ELSE Prefix(fiberNumber, 2) \o Repeat(maskingDisplayCharacter, length - 6)
             \o Suffix(fiberNumber, 4)

censorIDCardKeepsLastFive(idCard) ==
    LET length == Len(idCard)
    IN  IF length < 5 THEN idCard
        ELSE Repeat(maskingDisplayCharacter, length - 5) \o Suffix(idCard, 5)

censorIDCard(idCard) ==
    LET length == Len(idCard)
    IN  IF length < 4 THEN idCard
        ELSE Repeat(maskingDisplayCharacter, length - 4) \o Suffix(idCard, 4)

censorExcludeFirst3(value) ==
    LET length == Len(value)
    IN  IF length < 3 THEN value
        ELSE Prefix(value, 3) \o Repeat(maskingDisplayCharacter, length - 3)

censorFull(data) == Repeat(maskingDisplayCharacter, Len(data))

\* hmacValue: the hex encoding of an MD5 HMAC, 32 characters that are not computed here
hmacValue(value) == Repeat("f", 32)

Masking(value, t) ==
    CASE t = "Msisdn"      -> censorPhoneNumber(value)
      [] t = "Fbb"         -> censorFbbNumber(value)
      [] t = "CreditCard"  -> censorCreditCardId(value)
      [] t = "BankAccount" -> censorBankAccountNumber(value)
      [] t = "Email"       -> censorEmail(value)
      [] t = "IDCard"      -> censorIDCard(value)
      [] t = "Full"        -> censorFull(value)
      [] t \in {"Firstname", "Lastname"} -> censorExcludeFirst3(value)
      [] t = "Hashing"     -> hmacValue(value)
      [] OTHER             -> value

-----------------------------------------------------------------------------
(* SpecMasking: Masking applied to every string over a small alphabet *)

\* length of the strings built character by character
MaxWordLen == 12

\* one alphanumeric character and one that is not
Alphabet == {"a", "@"}

\* "abc@example.com"
EmailExample == <<"a", "b", "c", "@", "e", "x", "a", "m", "p", "l", "e", ".", "c", "o", "m">>

\* "0812345678"
PhoneExample == <<"0", "8", "1", "2", "3", "4", "5", "6", "7", "8">>

InitMasking ==
    /\ loggers = [s \in Scopes |-> NoLogger]
    /\ sink = <<>>
    /\ calls = [s \in Scopes |-> <<>>]
    /\ disp = IdleDispatcher
    /\ hnd = IdleHandler
    /\ rw = <<>>
    /\ held = NothingHeld
    /\ req = NoRequest
    /\ order = NoOrder
    /\ client = NoClient
    /\ \E v \in {<<>>, EmailExample, PhoneExample} :
          word = [done |-> FALSE, value |-> v, type |-> "", out |-> <<>>]

\* the caller's string grows by one character
WordAppend ==
    /\ ~word.done
    /\ Len(word.value) < MaxWordLen
    /\ \E c \in Alphabet : word' = [word EXCEPT !.value = Append(@, c)]
    /\ UNCHANGED <<loggers, sink, calls, disp, hnd, rw, held, req, order, client>>

\* masker.Masking(value, t)
CallMasking ==
    /\ ~word.done
    /\ \E t \in MaskingTypes :
          word' = [word EXCEPT !.done = TRUE, !.type = t, !.out = Masking(word.value, t)]
    /\ UNCHANGED <<loggers, sink, calls, disp, hnd, rw, held, req, order, client>>

NextMasking ==
    \/ WordAppend
    \/ CallMasking

SpecMasking == InitMasking /\ [][NextMasking]_vars

\* the first a and the last b characters kept, every character between them masked
KeepEnds(v, a, b) ==
    [i \in 1..Len(v) |-> IF i <= a \/ i > Len(v) - b THEN v[i] ELSE "X"]

\* the rule table of the masking types
RuleTable(v, t) ==
    CASE t = "Msisdn"      -> IF Len(v) < 7 THEN v ELSE KeepEnds(v, 3, 4)
      [] t = "Fbb"         -> IF Len(v) < 6 THEN v ELSE KeepEnds(v, 2, 4)
      [] t = "CreditCard"  -> IF Len(v) < 11 THEN v ELSE KeepEnds(v, 6, 4)
      [] t = "BankAccount" -> IF Len(v) <= 7 THEN v ELSE KeepEnds(v, 4, 3)
      [] t = "IDCard"      -> IF Len(v) < 4 THEN v ELSE KeepEnds(v, 0, 4)
      [] t \in {"Firstname", "Lastname"} -> IF Len(v) < 3 THEN v ELSE KeepEnds(v, 3, 0)
      [] t = "Email"       -> IF Len(v) < 3 THEN v
                              ELSE [i \in 1..Len(v) |->
                                      IF i <= 3 \/ v[i] \notin Alphanumeric THEN v[i] ELSE "X"]
      [] t = "Full"        -> KeepEnds(v, 0, 0)

\* C18: for every string and every masking type of the rule table, Masking returns what
\* the table gives; the output is as long as the input and differs from it only by 'X'
C18_MaskingFollowsTable ==
    (word.done /\ word.type \in MaskingTypes \ {"Hashing"}) =>
        /\ word.out = RuleTable(word.value, word.type)
        /\ Len(word.out) = Len(word.value)
        /\ \A i \in 1..Len(word.out) : word.out[i] # word.value[i] => word.out[i] = "X"

\* a credit card number of 12 characters: its 7th and 8th are masked, its 9th is kept
C18_Witness ==
    /\ word.done
    /\ word.type = "CreditCard"
    /\ Len(word.value) = 12
    /\ word.value[7] = "a"
    /\ word.out[7] = "X"
    /\ word.out[8] = "X"
    /\ word.out[9] = word.value[9]

\* C19 (as stated): the email "abc@example.com" is masked to "abcXXXXXXXXXXXX"
C19_AsStated ==
    (word.done /\ word.type = "Email" /\ word.value = EmailExample) =>
        word.out = <<"a", "b", "c", "X", "X", "X", "X", "X", "X", "X", "X", "X", "X", "X", "X">>

\* C19 (amended): the email "abc@example.com" is masked to "abc@XXXXXXX.XXX": the '@'
\* and the '.' are kept
C19_EmailExample ==
    (word.done /\ word.type = "Email" /\ word.value = EmailExample) =>
        word.out = <<"a", "b", "c", "@", "X", "X", "X", "X", "X", "X", "X", ".", "X", "X", "X">>

C19_Witness ==
    /\ word.done
    /\ word.type = "Email"
    /\ word.value = EmailExample
    /\ Len(word.out) = 15

\* C20 (as stated): the phone number "0812345678" is masked to "081XXXXX678"
C20_AsStated ==
    (word.done /\ word.type = "Msisdn" /\ word.value = PhoneExample) =>
        word.out = <<"0", "8", "1", "X", "X", "X", "X", "X", "6", "7", "8">>

\* C20 (amended): the phone number "0812345678" is masked to "081XXX5678": three mask
\* characters between the first three and the last four
C20_PhoneExample ==
    (word.done /\ word.type = "Msisdn" /\ word.value = PhoneExample) =>
        word.out = <<"0", "8", "1", "X", "X", "X", "5", "6", "7", "8">>

C20_Witness ==
    /\ word.done
    /\ word.type = "Msisdn"
    /\ word.value = PhoneExample
    /\ Len(word.out) = 10

-----------------------------------------------------------------------------
(* Payloads.  A Go value and a JSON document are trees [k, s, e]: k is the kind, s the   *)
(* characters of a string or a number, e the entries (key, val) of a map in key order,   *)
(* or the elements (val) of a slice.                                                     *)

Tree(k, s, e) == [k |-> k, s |-> s, e |-> e]

Entry(key, val) == [key |-> key, val |-> val]

\* Go values: nil, a channel (json: unsupported type), string, int, float64,
\* map[string]any, []any
Nil == Tree("nil", <<>>, <<>>)
Chan == Tree("chan", <<>>, <<>>)
Str(s) == Tree("string", s, <<>>)
IntVal(s) == Tree("int", s, <<>>)
Float64(s) == Tree("float64", s, <<>>)
Map(entries) == Tree("map", <<>>, entries)
Slice(elems) == Tree("slice", <<>>, [i \in 1..Len(elems) |-> Entry("", elems[i])])

\* the elements of a slice
ElemsOf(v) == [i \in 1..Len(v.e) |-> v.e[i].val]

\* m[key]: nil when the map has no such key
Has(m, key) == \E i \in 1..Len(m.e) : m.e[i].key = key
Get(m, key) ==
    IF Has(m, key) THEN m.e[CHOOSE i \in 1..Len(m.e) : m.e[i].key = key].val ELSE Nil

\* m[key] = val on a key the map has
Replace(m, key, val) ==
    [m EXCEPT !.e = [i \in 1..Len(m.e) |-> IF m.e[i].key = key THEN Entry(key, val) ELSE m.e[i]]]

\* m[key] = val
Put(m, key, val) ==
    IF Has(m, key) THEN Replace(m, key, val) ELSE [m EXCEPT !.e = Append(@, Entry(key, val))]

JSONError == Tree("error", <<>>, <<>>)

\* json.Marshal: null, string, number, object, array; an error on a value it cannot encode
RECURSIVE Marshal(_)
Marshal(v) ==
    CASE v.k = "nil"                -> Tree("null", <<>>, <<>>)
      [] v.k = "string"             -> Tree("string", v.s, <<>>)
      [] v.k \in {"int", "float64"} -> Tree("number", v.s, <<>>)
      [] v.k \in {"map", "slice"}   ->
            LET es == [i \in 1..Len(v.e) |-> Entry(v.e[i].key, Marshal(v.e[i].val))]
            IN  IF \E i \in 1..Len(es) : es[i].val.k = "error"
                THEN JSONError
                ELSE Tree(IF v.k = "map" THEN "object" ELSE "array", <<>>, es)
      [] OTHER                      -> JSONError

\* json.Unmarshal into an any: every number becomes a float64
RECURSIVE UnmarshalAny(_)
UnmarshalAny(j) ==
    CASE j.k = "null"   -> Nil
      [] j.k = "string" -> Str(j.s)
      [] j.k = "number" -> Float64(j.s)
      [] j.k = "object" ->
            Map([i \in 1..Len(j.e) |-> Entry(j.e[i].key, UnmarshalAny(j.e[i].val))])
      [] j.k = "array"  ->
            Tree("slice", <<>>, [i \in 1..Len(j.e) |-> Entry("", UnmarshalAny(j.e[i].val))])

\* json.Unmarshal into a map[string]any: an error unless the document is an object or null
UnmarshalMap(j) ==
    IF j.k \in {"object", "null"}
    THEN [err |-> FALSE, value |-> UnmarshalAny(j)]
    ELSE [err |-> TRUE, value |-> Nil]

\* json.Unmarshal into a []map[string]any: an error unless the document is null or an
\* array of objects and nulls
UnmarshalMaps(j) ==
    IF j.k = "null" \/ (j.k = "array" /\ \A i \in 1..Len(j.e) : j.e[i].val.k \in {"object", "null"})
    THEN [err |-> FALSE, value |-> UnmarshalAny(j)]
    ELSE [err |-> TRUE, value |-> Nil]

-----------------------------------------------------------------------------
(* cloneAndMask (log-service.go).  A MaskingField is the sequence of its segments. *)

MaskingOptionDto(field, t, isArray) ==
    [MaskingField |-> field, MaskingType |-> t, IsArray |-> isArray]

\* strings.Contains(field, "*")
ContainsStar(field) == \E i \in 1..Len(field) : field[i] = "*"

FirstStar(field) == CHOOSE i \in 1..Len(field) : field[i] = "*" /\ \A j \in 1..(i - 1) : field[j] # "*"

\* strings.Split(path, "."): the empty path has one empty key
Keys(path) == IF path = <<>> THEN <<"">> ELSE path

\* strings.TrimSuffix(strings.Split(field, "*")[0], ".")
RootOf(field) == SubSeq(field, 1, FirstStar(field) - 1)

\* strings.TrimPrefix(strings.Split(field, "*")[1], "."), for a field with one "*"
SuffixOf(field) == SubSeq(field, FirstStar(field) + 1, Len(field))

\* strings.Replace(field, "*", strconv.Itoa(index), 1)
WithIndex(field, index) == [field EXCEPT ![FirstStar(field)] = ToString(index)]

\* isArrayOrSlice: reflect.TypeOf(nil) is nil, and Kind() on it panics
isArrayOrSlice(data) == [panic |-> data.k = "nil", value |-> data.k = "slice"]

setNestedPropertyAtTopLevel(obj, keys, maskType) ==
    IF obj.k = "map" /\ Get(obj, keys[Len(keys)]).k = "string"
    THEN Replace(obj, keys[Len(keys)], Str(Masking(Get(obj, keys[Len(keys)]).s, maskType)))
    ELSE obj

\* setNestedProperty: walks the maps along keys and masks the string under the last key
RECURSIVE setNestedProperty(_, _, _)
setNestedProperty(obj, keys, maskType) ==
    IF obj.k # "map" THEN obj
    ELSE IF Len(keys) = 1
         THEN IF Get(obj, keys[1]).k = "string"
              THEN Replace(obj, keys[1], Str(Masking(Get(obj, keys[1]).s, maskType)))
              ELSE obj
         ELSE IF Get(obj, keys[1]).k = "map"
              THEN Replace(obj, keys[1], setNestedProperty(Get(obj, keys[1]), Tail(keys), maskType))
              ELSE obj

\* GetObjectByStringKeys: the elements of the slice found along keys, none otherwise
RECURSIVE GetObjectByStringKeys(_, _)
GetObjectByStringKeys(current, keys) ==
    IF keys = <<>>
    THEN IF current.k = "slice" THEN ElemsOf(current) ELSE <<>>
    ELSE IF current.k = "map" /\ Get(current, keys[1]).k # "nil"
         THEN GetObjectByStringKeys(Get(current, keys[1]), Tail(keys))
         ELSE <<>>

\* the elements of the slice GetObjectByStringKeys found are references into the clone:
\* what setNestedProperty writes into them is written into the clone
RECURSIVE WithItemsAt(_, _, _)
WithItemsAt(current, keys, items) ==
    IF keys = <<>> THEN Slice(items)
    ELSE Replace(current, keys[1], WithItemsAt(Get(current, keys[1]), Tail(keys), items))

\* SetNestedArrayProperty: walks the maps along all keys but the last, takes the slice
\* under the last key and masks the "key1" of each of its maps
RECURSIVE SetNestedArrayProperty(_, _, _)
SetNestedArrayProperty(obj, keys, maskingType) ==
    IF obj.k # "map" THEN obj
    ELSE IF Len(keys) = 1
         THEN LET arr == Get(obj, keys[1])
                  key1(elem) == IF Get(elem, "key1").k = "string" THEN Get(elem, "key1").s ELSE <<>>
              IN  IF arr.k # "slice" THEN obj
                  ELSE Replace(obj, keys[1],
                          Slice([i \in 1..Len(arr.e) |->
                                    IF arr.e[i].val.k = "map"
                                    THEN Put(arr.e[i].val, "key1",
                                             Str(Masking(key1(arr.e[i].val), maskingType)))
                                    ELSE arr.e[i].val]))
         ELSE IF Has(obj, keys[1])
              THEN Replace(obj, keys[1],
                           SetNestedArrayProperty(Get(obj, keys[1]), Tail(keys), maskingType))
              ELSE obj

\* log-service.go:318-321: one SetNestedArrayProperty per index of lookupArr
RECURSIVE maskIndexes(_, _, _, _)
maskIndexes(elem, opt, index, n) ==
    IF index >= n THEN elem
    ELSE maskIndexes(SetNestedArrayProperty(elem, Keys(WithIndex(opt.MaskingField, index)),
                                            opt.MaskingType),
                     opt, index + 1, n)

\* log-service.go:314-325: the options applied to one element of a top-level array
RECURSIVE maskArrayElement(_, _)
maskArrayElement(elem, options) ==
    IF options = <<>> THEN elem
    ELSE LET opt  == Head(options)
             next == IF ContainsStar(opt.MaskingField)
                     THEN maskIndexes(elem, opt, 0,
                              Len(GetObjectByStringKeys(elem, Keys(RootOf(opt.MaskingField)))))
                     ELSE setNestedProperty(elem, Keys(opt.MaskingField), opt.MaskingType)
         IN  maskArrayElement(next, Tail(options))

\* log-service.go:336-352: the options applied to a top-level map
RECURSIVE maskMap(_, _)
maskMap(clone, options) ==
    IF options = <<>> THEN clone
    ELSE LET opt  == Head(options)
             root == Keys(RootOf(opt.MaskingField))
             lookupArr == GetObjectByStringKeys(clone, root)
             items == [i \in 1..Len(lookupArr) |->
                          IF lookupArr[i].k = "map"
                          THEN setNestedProperty(lookupArr[i], Keys(SuffixOf(opt.MaskingField)),
                                                 opt.MaskingType)
                          ELSE lookupArr[i]]
             next == IF opt.IsArray /\ ContainsStar(opt.MaskingField)
                     THEN IF lookupArr = <<>> THEN clone ELSE WithItemsAt(clone, root, items)
                     ELSE setNestedProperty(clone, Keys(opt.MaskingField), opt.MaskingType)
         IN  maskMap(next, Tail(options))

\* no copy was made
Absent == Tree("absent", <<>>, <<>>)

\* what a call of cloneAndMask leaves: the caller's payload, the copy it made, and which
\* of the two it returned
ReturnsData(data) == [panic |-> FALSE, data |-> data, clone |-> Absent, ret |-> "data"]
ReturnsClone(data, clone) == [panic |-> FALSE, data |-> data, clone |-> clone, ret |-> "clone"]
Panics(data) == [panic |-> TRUE, data |-> data, clone |-> Absent, ret |-> "none"]

\* the value cloneAndMask returned
OutOf(r) == IF r.ret = "clone" THEN r.clone ELSE r.data

\* log-service.go:301-354: cloneAndMask with at least one option
maskCopy(data, options) ==
    LET raw == Marshal(data)
    IN  IF raw.k = "error" THEN ReturnsData(data)
        ELSE IF isArrayOrSlice(data).panic THEN Panics(data)
        ELSE IF isArrayOrSlice(data).value
             THEN LET clones == UnmarshalMaps(raw)
                  IN  IF clones.err THEN ReturnsData(data)
                      ELSE ReturnsClone(data,
                              Slice([i \in 1..Len(clones.value.e) |->
                                        maskArrayElement(clones.value.e[i].val, options)]))
             ELSE LET clone == UnmarshalMap(raw)
                  IN  IF clone.err THEN ReturnsData(data)
                      ELSE ReturnsClone(data, maskMap(clone.value, options))

cloneAndMaskInPlace(data, options) ==
    LET r == maskCopy(data, options)
    IN  IF Len(options) = 0 THEN ReturnsData(data)
        ELSE IF r.ret = "clone" THEN ReturnsData(r.clone)
        ELSE r

cloneAndMaskWithoutFastPath(data, options) == maskCopy(data, options)

cloneAndMask(data, options) ==
    IF Len(options) = 0 THEN ReturnsData(data) ELSE maskCopy(data, options)

\* toJSON of a payload: a string as it is, a number printed, nil as the empty string,
\* anything else as its JSON document (the error of json.Marshal is dropped)
toJSONOf(v) ==
    CASE v.k = "string"             -> Tree("text", v.s, <<>>)
      [] v.k \in {"int", "float64"} -> Tree("text", v.s, <<>>)
      [] v.k = "nil"                -> Tree("text", <<>>, <<>>)
      [] OTHER -> IF Marshal(v).k = "error" THEN Tree("text", <<>>, <<>>) ELSE Marshal(v)

\* Info, Debug and Error with masking options, after cloneAndMask has returned cloned
DoEmitMasked(st, s, op, level, action, data, cloned) ==
    LET dto == [st.loggers[s].logDto EXCEPT
                   !.Action            = action.Action,
                   !.ActionDescription = action.ActionDescription,
                   !.SubAction         = action.SubAction,
                   !.Message           = [text |-> toJSONOf(cloned), events |-> <<>>],
                   !.Timestamp         = TRUE]
    IN  Noted([st EXCEPT !.sink = Append(@, Line(s, "detail", level, dto)),
                         !.loggers[s].logDto = AfterEmit(dto)],
              s, Call(op, action, data))

-----------------------------------------------------------------------------
(* SpecMask: cloneAndMask and the detail calls, on every payload and rule list *)

\* masking rules handed to one call
MaxRules == 2
\* detail calls made with the payload and the rules
MaxMaskedEmits == 1

Somchai == <<"s", "o", "m", "c", "h", "a", "i">>
Vip == <<"v", "i", "p">>

Item(name) == Map(<<Entry("name", Str(name))>>)

\* a map: a number, an array of objects, a string, an array of strings, a nested map
OrderPayload ==
    Map(<< Entry("age",   IntVal(<<"3", "0">>)),
           Entry("items", Slice(<<Item(Somchai), Item(Vip)>>)),
           Entry("name",  Str(Somchai)),
           Entry("tags",  Slice(<<Str(Vip)>>)),
           Entry("user",  Map(<<Entry("email", Str(EmailExample))>>)) >>)

\* a top-level array of objects, of strings, and of both
OrderList ==
    Slice(<< Map(<< Entry("items", Slice(<<Item(Somchai)>>)), Entry("name", Str(Somchai)) >>),
             Item(Vip) >>)
TagList == Slice(<<Str(Vip), Str(Somchai)>>)
MixedList == Slice(<<Item(Somchai), Str(Vip)>>)

\* the data argument of Info / Debug / Error and of cloneAndMask
MaskPayloads ==
    {Nil, Str(<<"O", "K">>), IntVal(<<"7">>), Chan, OrderPayload, OrderList, TagList, MixedList}

\* the options: paths that resolve to a string, to a number, to nothing, through a string,
\* and wildcard paths on an array of objects, an array of strings, nothing and a map
MaskRules ==
    { MaskingOptionDto(<<"name">>, "Firstname", FALSE),
      MaskingOptionDto(<<"name">>, "Full", TRUE),
      MaskingOptionDto(<<"user", "email">>, "Email", FALSE),
      MaskingOptionDto(<<"user", "zip">>, "Full", FALSE),
      MaskingOptionDto(<<"age">>, "Full", FALSE),
      MaskingOptionDto(<<"name", "first">>, "Full", FALSE),
      MaskingOptionDto(<<"ghost", "name">>, "Full", FALSE) }
    \cup
    { MaskingOptionDto(f, "Full", a) :
        f \in { <<"items", "*", "name">>, <<"tags", "*">>,
                <<"ghost", "*", "name">>, <<"user", "*", "email">> },
        a \in BOOLEAN }

\* the three detail calls and the level each writes at
DetailCalls == {<<"Info", "info">>, <<"Debug", "debug">>, <<"Error", "error">>}

InitMask ==
    /\ loggers = [s \in Scopes |->
                    IF s = "s1" THEN NewCustomLogger(customLogOf("product-service", TRUE))
                    ELSE NoLogger]
    /\ sink = <<>>
    /\ calls = [s \in Scopes |-> <<>>]
    /\ disp = IdleDispatcher
    /\ hnd = IdleHandler
    /\ rw = <<>>
    /\ word = NoWord
    /\ req = NoRequest
    /\ order = NoOrder
    /\ client = NoClient
    /\ \E p \in MaskPayloads :
          held = [ called  |-> FALSE,    \* cloneAndMask was called on the payload
                   given   |-> p,        \* the payload as the caller built it
                   data    |-> p,        \* the payload the caller holds now
                   options |-> <<>>,
                   clone   |-> Absent,
                   ret     |-> "none",
                   panic   |-> FALSE,    \* cloneAndMask panicked
                   aborted |-> FALSE ]   \* a detail call panicked

\* the caller adds a rule to its list
AddRule ==
    /\ ~held.called
    /\ calls["s1"] = <<>>
    /\ Len(held.options) < MaxRules
    /\ \E opt \in MaskRules : held' = [held EXCEPT !.options = Append(@, opt)]
    /\ UNCHANGED <<loggers, sink, calls, disp, hnd, rw, word, req, order, client>>

\* cloneAndMask(data, options, masker)
CallCloneAndMask ==
    /\ ~held.called
    /\ calls["s1"] = <<>>
    /\ LET r == cloneAndMask(held.data, held.options)
       IN  held' = [held EXCEPT !.called = TRUE, !.data = r.data, !.clone = r.clone,
                                !.ret = r.ret, !.panic = r.panic]
    /\ UNCHANGED <<loggers, sink, calls, disp, hnd, rw, word, req, order, client>>

\* Info / Debug / Error (action, data, options...): a panic of cloneAndMask leaves toStr
\* before the record is touched and reaches the caller
EmitWithRules ==
    /\ Len(calls["s1"]) < MaxMaskedEmits
    /\ ~held.aborted
    /\ \E c \in DetailCalls :
          LET r == cloneAndMask(held.data, held.options)
          IN  IF r.panic
              THEN /\ calls' = [calls EXCEPT !["s1"] = Append(@, Call(c[1], IsoAction, held.data))]
                   /\ held' = [held EXCEPT !.aborted = TRUE]
                   /\ UNCHANGED <<loggers, sink>>
              ELSE /\ Becomes(DoEmitMasked(Cur, "s1", c[1], c[2], IsoAction, held.data, OutOf(r)))
                   /\ held' = [held EXCEPT !.data = r.data]
    /\ UNCHANGED <<disp, hnd, rw, word, req, order, client>>

NextMask ==
    \/ AddRule
    \/ CallCloneAndMask
    \/ EmitWithRules

SpecMask == InitMask /\ [][NextMask]_vars

\* C12: every detail call returns without panicking and has written one line to the
\* detail sink, whatever the payload and the masking rules
C12_DetailCallNeverAborts ==
    /\ ~held.aborted
    /\ Len(SelectSeq(LinesOf("s1"), LAMBDA l : l.sink = "detail")) = Len(CallsOf("s1", DetailOps))

\* C13: the payload the caller holds is the payload it built, after cloneAndMask and
\* after every detail call; a value that differs from it is returned in a separate copy
C13_InputNeverMutated ==
    /\ held.data = held.given
    /\ (held.called /\ ~held.panic /\ Marshal(OutOf(held)) # Marshal(held.given)) =>
           held.ret = "clone"

\* the email of the nested map was masked in the copy, the caller's map still has it
C13_Witness ==
    /\ held.called
    /\ held.given = OrderPayload
    /\ held.ret = "clone"
    /\ Get(Get(held.clone, "user"), "email") # Str(EmailExample)
    /\ Get(Get(held.data, "user"), "email") = Str(EmailExample)

\* C14: with an empty rule list cloneAndMask returns the payload itself: no panic, no
\* copy, the payload unchanged
C14_EmptyRulesReturnPayload ==
    (held.called /\ held.options = <<>>) =>
        /\ ~held.panic
        /\ held.ret = "data"
        /\ held.clone = Absent
        /\ held.data = held.given

\* cloneAndMask was called on nil without a rule
C14_Witness ==
    /\ held.called
    /\ held.options = <<>>
    /\ held.given = Nil
    /\ held.ret = "data"

\* the value under a path of map keys; nil when a key is missing or a level is no map
RECURSIVE LeafAt(_, _)
LeafAt(v, path) ==
    IF path = <<>> THEN v
    ELSE IF v.k = "map" /\ Has(v, path[1]) THEN LeafAt(Get(v, path[1]), Tail(path))
    ELSE Nil

\* v with the value under a path that resolves replaced
RECURSIVE WithLeaf(_, _, _)
WithLeaf(v, path, new) ==
    IF path = <<>> THEN new
    ELSE Replace(v, path[1], WithLeaf(Get(v, path[1]), Tail(path), new))

\* v with the string under the path masked; v itself when the path gives no string
MaskedAt(v, path, t) ==
    IF LeafAt(v, path).k = "string"
    THEN WithLeaf(v, path, Str(Masking(LeafAt(v, path).s, t)))
    ELSE v

\* the only rule of the call
TheRule == held.options[1]

MaskedInArray(v, field, t) ==
    LET arr == LeafAt(v, RootOf(field))
    IN  IF arr.k = "slice"
        THEN WithLeaf(v, RootOf(field),
                      Slice([i \in 1..Len(arr.e) |-> MaskedAt(arr.e[i].val, SuffixOf(field), t)]))
        ELSE v

\* C16: for a map payload and one rule whose path has a wildcard segment, whatever its
\* IsArray flag, the returned document is the payload with the string under the remainder
\* of the path masked in every element of the array before the wildcard; it is the
\* payload as it was when there is no array there
C16_WildcardMasksEveryElement ==
    ( /\ held.called
      /\ held.given.k = "map"
      /\ Len(held.options) = 1
      /\ ContainsStar(TheRule.MaskingField) ) =>
        /\ ~held.panic
        /\ Marshal(OutOf(held)) =
              Marshal(MaskedInArray(held.given, TheRule.MaskingField, TheRule.MaskingType))

\* C17: for a top-level array, the returned document is the array of what cloneAndMask
\* returns for each element on its own, with the same rules
C17_ArrayIsElementwise ==
    (held.called /\ held.given.k = "slice") =>
        /\ ~held.panic
        /\ Marshal(OutOf(held)) =
              Marshal(Slice([i \in 1..Len(held.given.e) |->
                               OutOf(cloneAndMask(held.given.e[i].val, held.options))]))

\* C24: a consumed message is committed only when its handler ran to its end and returned
\* nil; a message whose handler returned an error or panicked is not committed
C24_CommitOnlyAfterSuccess ==
    (disp.kind = "kafka" /\ disp.committed) => (hnd.pc = "returning" /\ hnd.ret = "nil")

-----------------------------------------------------------------------------
(* SpecIds: the correlation ids of a request or a message, and the records of its scope *)

\* logger calls made on the scope of SpecIds
MaxIdCalls == 2

\* uuid.NewString(): the n-th id generated for the request
NewString(n) == "uuid-" \o ToString(n)

\* the values an upstream caller puts in X-Transaction-ID, X-Session-ID, X-Request-ID;
\* r.Header.Get gives "" for a header that is not there
UpstreamIds == {"", "upstream"}

\* NewRequest: each id is the header when it is there, else a new uuid that is also set
\* as the header
NewRequest(header) ==
    LET xTId == IF header.Transaction = "" THEN NewString(1) ELSE header.Transaction
        nS   == IF header.Transaction = "" THEN 2 ELSE 1
        xSId == IF header.Session = "" THEN NewString(nS) ELSE header.Session
        nR   == IF header.Session = "" THEN nS + 1 ELSE nS
        xRId == IF header.Request = "" THEN NewString(nR) ELSE header.Request
    IN  [ made          |-> TRUE,
          kind          |-> "http",
          inbound       |-> header,
          header        |-> [Transaction |-> xTId, Session |-> xSId, Request |-> xRId],
          TransactionID |-> xTId,
          SessionID     |-> xSId,
          RequestID     |-> xRId ]

KafkaHeader(key, value) == [Key |-> key, Value |-> value]

\* strings.ToLower on the names of the correlation headers
ToLowerName(name) ==
    CASE name = "X-Transaction-ID" -> "x-transaction-id"
      [] name = "X-Session-ID"     -> "x-session-id"
      [] OTHER                     -> name

\* the headers of a consumed message
MessageHeaders ==
    { <<>>,
      <<KafkaHeader("content-type", "application/json")>>,
      <<KafkaHeader("x-transaction-id", "header-t")>>,
      <<KafkaHeader("x-session-id", "header-s")>>,
      <<KafkaHeader("x-transaction-id", "header-t"), KafkaHeader("x-session-id", "header-s")>>,
      <<KafkaHeader("X-Transaction-ID", "header-t"), KafkaHeader("X-Session-ID", "header-s")>> }

\* the Header of the MsgConsumer in the value of a consumed message; valid: the value is
\* a JSON document
MessageBodies ==
    { [valid |-> v, Transaction |-> t, Session |-> ss] :
        v \in BOOLEAN, t \in {"", "body-t"}, ss \in {"", "body-s"} }

\* NewMessage lines 66-78: the loop over msg.Headers
RECURSIVE readHeaders(_, _)
readHeaders(headers, data) ==
    IF headers = <<>> THEN data
    ELSE LET h == Head(headers)
             next == CASE h.Key = ToLowerName("X-Transaction-ID") ->
                              [data EXCEPT !.Transaction = h.Value, !.extractHeaders = FALSE]
                       [] h.Key = ToLowerName("X-Session-ID") ->
                              [data EXCEPT !.Session = h.Value, !.extractHeaders = FALSE]
                       [] OTHER -> data
         IN  readHeaders(Tail(headers), next)

\* NewMessage
NewMessage(msg) ==
    LET d0 == readHeaders(msg.Headers, [Transaction |-> "", Session |-> "", extractHeaders |-> TRUE])
        d1 == IF d0.extractHeaders /\ msg.Body.valid
              THEN [d0 EXCEPT !.Transaction = msg.Body.Transaction, !.Session = msg.Body.Session]
              ELSE d0
        t  == IF d1.Transaction = "" THEN NewString(1) ELSE d1.Transaction
        ss == IF d1.Session = "" THEN NewString(IF d1.Transaction = "" THEN 2 ELSE 1) ELSE d1.Session
    IN  [ made          |-> TRUE,
          kind          |-> "kafka",
          inbound       |-> msg,
          header        |-> msg.Headers,
          TransactionID |-> t,
          SessionID     |-> ss,
          RequestID     |-> NoSpanTraceID ]

InitIds ==
    /\ loggers = [s \in Scopes |-> NoLogger]
    /\ sink = <<>>
    /\ calls = [s \in Scopes |-> <<>>]
    /\ disp = IdleDispatcher
    /\ hnd = IdleHandler
    /\ rw = <<>>
    /\ held = NothingHeld
    /\ word = NoWord
    /\ req = NoRequest
    /\ order = NoOrder
    /\ client = NoClient

\* ServeHTTP: r := http.NewRequest(req)
ReceiveRequest ==
    /\ ~req.made
    /\ \E t \in UpstreamIds, ss \in UpstreamIds, r \in UpstreamIds :
          req' = NewRequest([Transaction |-> t, Session |-> ss, Request |-> r])
    /\ UNCHANGED <<loggers, sink, calls, disp, hnd, rw, held, word, order, client>>

\* Subscribe: m := NewMessage(ctx, msg)
ReceiveMessage ==
    /\ ~req.made
    /\ \E h \in MessageHeaders, b \in MessageBodies :
          req' = NewMessage([Headers |-> h, Body |-> b])
    /\ UNCHANGED <<loggers, sink, calls, disp, hnd, rw, held, word, order, client>>

\* newContext(w, r, ...) for the request or message
IdsNewContext ==
    /\ req.made
    /\ \E name \in ServiceNames : NewContext("s1", name, req.kind = "http")
    /\ UNCHANGED <<disp, hnd, rw, held, word, req, order, client>>

IdsInfo ==
    /\ NCalls("s1") < MaxIdCalls
    /\ \E a \in LoggerActions : Info("s1", a, "OK")
    /\ UNCHANGED <<disp, hnd, rw, held, word, req, order, client>>

IdsEnd ==
    /\ NCalls("s1") < MaxIdCalls
    /\ CallsOf("s1", {"End"}) = <<>>
    /\ \E code \in StatusCodes : End("s1", code, "")
    /\ UNCHANGED <<disp, hnd, rw, held, word, req, order, client>>

NextIds ==
    \/ ReceiveRequest
    \/ ReceiveMessage
    \/ IdsNewContext
    \/ IdsInfo
    \/ IdsEnd

SpecIds == InitIds /\ [][NextIds]_vars

\* the value a message supplies for a correlation id: the header of that name when there
\* is one, else the field of the body header
SuppliedBy(msg, name, field) ==
    LET hits == {i \in 1..Len(msg.Headers) : ToLowerName(msg.Headers[i].Key) = ToLowerName(name)}
    IN  IF hits # {} THEN msg.Headers[CHOOSE i \in hits : TRUE].Value
        ELSE IF msg.Body.valid THEN msg.Body[field]
        ELSE ""

GeneratedIds == {NewString(n) : n \in 1..3}

\* the id is the supplied value when one was supplied, else a generated, non-empty one
KeptOrGenerated(id, supplied) ==
    IF supplied # "" THEN id = supplied ELSE (id # "" /\ id \in GeneratedIds)

\* C22: for an HTTP request each of transaction id, session id and request id is the
\* header when one was supplied, else a newly generated id that is also written back to
\* the header
C22_HttpIdsKeptOrGenerated ==
    (req.made /\ req.kind = "http") =>
        /\ KeptOrGenerated(req.TransactionID, req.inbound.Transaction)
        /\ KeptOrGenerated(req.SessionID, req.inbound.Session)
        /\ KeptOrGenerated(req.RequestID, req.inbound.Request)
        /\ req.header = [Transaction |-> req.TransactionID, Session |-> req.SessionID,
                         Request |-> req.RequestID]
        /\ (req.inbound.Transaction = "" /\ req.inbound.Session = "") =>
               req.TransactionID # req.SessionID

\* C22: for a consumed message the transaction id and the session id are the values
\* supplied in the message headers or in the body header, when they were supplied, else
\* newly generated ids
C22_MessageIdsKeptOrGenerated ==
    (req.made /\ req.kind = "kafka") =>
        /\ KeptOrGenerated(req.TransactionID, SuppliedBy(req.inbound, "X-Transaction-ID", "Transaction"))
        /\ KeptOrGenerated(req.SessionID, SuppliedBy(req.inbound, "X-Session-ID", "Session"))

\* a request with a session id from upstream and no transaction id
C22_Witness ==
    /\ req.made
    /\ req.kind = "http"
    /\ req.inbound.Session = "upstream"
    /\ req.SessionID = "upstream"
    /\ req.inbound.Transaction = ""
    /\ req.TransactionID = NewString(1)
    /\ req.header.Transaction = NewString(1)

\* C23: every record of the scope, detail line or summary record, carries the request id,
\* the session id and the trace id captured when the scope was created
C23_RecordsCarryCorrelationIds ==
    req.made =>
        \A i \in 1..Len(sink) :
            /\ sink[i].line.RequestId = req.RequestID
            /\ sink[i].line.SessionId = req.SessionID
            /\ sink[i].line.Metadata.TraceId = NoSpanTraceID

-----------------------------------------------------------------------------
(* SpecOrder: HandleCreateOrder of the order service *)

\* items of one order
MaxItems == 3

LoggerActionOf(action, actionDescription, subAction) ==
    [Action |-> action, ActionDescription |-> actionDescription, SubAction |-> subAction]

NewHTTPRequest(actionDescription, subAction) == LoggerActionOf("[HTTP_REQUEST]", actionDescription, subAction)

NewHTTPResponse(actionDescription, subAction) == LoggerActionOf("[HTTP_RESPONSE]", actionDescription, subAction)

NewDBRequest(operation, actionDescription) == LoggerActionOf("[DB_REQUEST]", actionDescription, operation)

NewDBResponse(operation, actionDescription) == LoggerActionOf("[DB_RESPONSE]", actionDescription, operation)

NewProducing(actionDescription, subAction) == LoggerActionOf("[PRODUCING]", actionDescription, subAction)

NewProduced(actionDescription, subAction) == LoggerActionOf("[PRODUCED]", actionDescription, subAction)

NewInboundOf(actionDescription, subAction) == LoggerActionOf("[INBOUND]", actionDescription, subAction)

INSERT == "INSERT"

LogEventTag(node, command, code, description) ==
    [Node |-> node, Command |-> command, Code |-> code, Description |-> description]

\* ctx.Log().SetSummary(tag).Info(action, data) and ...Error(action, data)
SummaryInfo(st, tag, action, data) ==
    DoEmit(DoSetSummary(st, "s1", tag), "s1", "Info", "info", action, data)

SummaryError(st, tag, action, data) ==
    DoEmit(DoSetSummary(st, "s1", tag), "s1", "Error", "error", action, data)

\* ctx.JSON(code, v) of the scope of the request: header and body on the ResponseWriter,
\* the outbound detail line, End(code, "")
OrderJSON(st, code, v) ==
    /\ rw' = rw \o <<Written("header", code), Written("body", v)>>
    /\ Becomes(DoEnd(DoEmit(st, "s1", "Info", "info", NewOutbound, v), "s1", code, ""))

\* how a call to the user service or to the product service ends: a response with
\* status 200 and a body that decodes, client.Do fails, another status, the body cannot
\* be read, the body does not decode
FetchOutcomes == {"ok", "do", "status", "read", "unmarshal"}

FetchFailure(outcome) ==
    CASE outcome = "do"        -> [code |-> "500", description |-> "failed to get by ID"]
      [] outcome = "status"    -> [code |-> "404", description |-> "404 Not Found"]
      [] outcome = "read"      -> [code |-> "500", description |-> "failed to read response body"]
      [] outcome = "unmarshal" -> [code |-> "500", description |-> "invalid character"]

\* getUserByID
getUserByID(st, outcome) ==
    LET asked == SummaryInfo(st, LogEventTag("user_service", "get_user_by_id", "200", "success"),
                             NewHTTPRequest("get user by ID", ""), "request")
    IN  IF outcome = "ok"
        THEN SummaryInfo(asked, LogEventTag("user_service", "get_user_by_id", "200", "success"),
                         NewHTTPResponse("get user by ID success", ""), "response")
        ELSE SummaryError(asked, LogEventTag("user_service", "get_user_by_id",
                                             FetchFailure(outcome).code, FetchFailure(outcome).description),
                          NewHTTPResponse("get user by ID failed", ""), "error")

\* getProductByID
getProductByID(st, outcome) ==
    LET asked == DoEmit(st, "s1", "Info", "info", NewHTTPRequest("get product by ID", ""), "request")
    IN  IF outcome = "ok"
        THEN SummaryInfo(asked, LogEventTag("product_service", "get_product_by_id", "200", "success"),
                         NewHTTPResponse("get product by ID success", ""), "response")
        ELSE SummaryError(asked, LogEventTag("product_service", "get_product_by_id",
                                             FetchFailure(outcome).code, FetchFailure(outcome).description),
                          NewHTTPResponse("get product by ID failed", ""), "error")

InitOrder ==
    /\ loggers = [s \in Scopes |-> NoLogger]
    /\ sink = <<>>
    /\ calls = [s \in Scopes |-> <<>>]
    /\ disp = IdleDispatcher
    /\ hnd = IdleHandler
    /\ rw = <<>>
    /\ held = NothingHeld
    /\ word = NoWord
    /\ req = NoRequest
    /\ order = NoOrder
    /\ client = NoClient

OrderFrame == UNCHANGED <<disp, hnd, held, word, req, client>>

\* a POST of an order with n items arrives: ServeHTTP makes the scope and calls
\* HandleCreateOrder
OrderRequest ==
    /\ order.pc = "idle"
    /\ \E n \in 1..MaxItems :
          order' = [pc |-> "bind", items |-> n, inserted |-> 0, published |-> 0,
                    err |-> "nil", status |-> 0]
    /\ Becomes(DoNewContext(Cur, "s1", "order-service", TRUE))
    /\ UNCHANGED rw
    /\ OrderFrame

\* HandleCreateOrder: ctx.Bind fails
BindFails ==
    /\ order.pc = "bind"
    /\ OrderJSON(SummaryError(Cur, LogEventTag("client", "create_order", "400", "invalid_request"),
                              NewInboundOf("create order failed", ""), "error"),
                 400, "invalid request")
    /\ order' = [order EXCEPT !.pc = "responded", !.status = 400]
    /\ OrderFrame

\* HandleCreateOrder: validateOrder fails
ValidateFails ==
    /\ order.pc = "bind"
    /\ OrderJSON(SummaryError(Cur, LogEventTag("client", "create_order", "400", "invalid_request"),
                              NewInboundOf("create order request validation failed", ""), "error"),
                 400, "invalid_request")
    /\ order' = [order EXCEPT !.pc = "responded", !.status = 400]
    /\ OrderFrame

\* HandleCreateOrder: the request is valid, h.service.CreateOrder is called
OrderAccepted ==
    /\ order.pc = "bind"
    /\ Becomes(SummaryInfo(Cur, LogEventTag("client", "create_order", "200", ""),
                           NewInboundOf("create order", ""), "body"))
    /\ order' = [order EXCEPT !.pc = "user"]
    /\ UNCHANGED rw
    /\ OrderFrame

\* orderService.CreateOrder: user, err := getUserByID(ctx, order.CustomerID)
FetchUser ==
    /\ order.pc = "user"
    /\ \E outcome \in FetchOutcomes :
          /\ Becomes(getUserByID(Cur, outcome))
          /\ order' = IF outcome = "ok"
                      THEN [order EXCEPT !.pc = "products"]
                      ELSE [order EXCEPT !.pc = "failed", !.err = "user"]
    /\ UNCHANGED rw
    /\ OrderFrame

\* orderService.CreateOrder: one turn of the loop over order.Items
FetchProduct ==
    /\ order.pc = "products"
    /\ \E outcome \in FetchOutcomes :
          /\ Becomes(getProductByID(Cur, outcome))
          /\ order' = IF outcome # "ok"
                      THEN [order EXCEPT !.pc = "failed", !.err = "product"]
                      ELSE [order EXCEPT !.items = @ - 1,
                                         !.pc = IF order.items = 1 THEN "insert" ELSE @]
    /\ UNCHANGED rw
    /\ OrderFrame

\* repository.CreateOrder: r.col.InsertOne gives an error or stores the document
InsertOrder ==
    /\ order.pc = "insert"
    /\ LET asked == DoEmit(Cur, "s1", "Info", "info", NewDBRequest(INSERT, "insert order"), "order")
       IN  \E stored \in BOOLEAN :
              IF stored
              THEN /\ Becomes(SummaryInfo(asked, LogEventTag("mongo", "create_order", "200", "success"),
                                          NewDBResponse(INSERT, "insert order success"), "result"))
                   /\ order' = [order EXCEPT !.pc = "publish", !.inserted = @ + 1]
              ELSE /\ Becomes(SummaryError(asked, LogEventTag("mongo", "create_order", "500", "failed to insert order"),
                                           NewDBResponse(INSERT, "insert order failed"), "error"))
                   /\ order' = [order EXCEPT !.pc = "failed", !.err = "insert"]
    /\ UNCHANGED rw
    /\ OrderFrame

\* orderService.CreateOrder: ctx.Publish(ctx, "create_order_history", message) gives an
\* error or writes the message
PublishOrderHistory ==
    /\ order.pc = "publish"
    /\ LET asked == DoEmit(Cur, "s1", "Info", "info", NewProducing("create_order_history", ""), "message")
       IN  \E written \in BOOLEAN :
              IF written
              THEN /\ Becomes(SummaryInfo(asked, LogEventTag("kafka", "create_order_history", "200", "success"),
                                          NewProduced("create_order_history", ""), "topic"))
                   /\ order' = [order EXCEPT !.pc = "created", !.published = @ + 1]
              ELSE /\ Becomes(SummaryError(asked, LogEventTag("kafka", "create_order_history", "500",
                                                              "failed to publish order history"),
                                           NewProduced("create_order_history", ""), "error"))
                   /\ order' = [order EXCEPT !.pc = "failed", !.err = "publish"]
    /\ UNCHANGED rw
    /\ OrderFrame

\* HandleCreateOrder: CreateOrder returned an error
RespondFailed ==
    /\ order.pc = "failed"
    /\ OrderJSON(Cur, 500, "failed to create order")
    /\ order' = [order EXCEPT !.pc = "responded", !.status = 500]
    /\ OrderFrame

\* HandleCreateOrder: CreateOrder returned the order
RespondCreated ==
    /\ order.pc = "created"
    /\ OrderJSON(Cur, 200, "order")
    /\ order' = [order EXCEPT !.pc = "responded", !.status = 200]
    /\ OrderFrame

NextOrder ==
    \/ OrderRequest
    \/ BindFails
    \/ ValidateFails
    \/ OrderAccepted
    \/ FetchUser
    \/ FetchProduct
    \/ InsertOrder
    \/ PublishOrderHistory
    \/ RespondFailed
    \/ RespondCreated

SpecOrder == InitOrder /\ [][NextOrder]_vars

\* the steps of CreateOrder run in order, each only after the earlier ones succeeded
StepsInOrder ==
    order.pc # "idle" =>
        /\ order.published > 0 => order.inserted > 0
        /\ order.inserted > 0 => (order.items = 0 /\ order.err \notin {"user", "product", "insert"})
        /\ (order.inserted <= 1 /\ order.published <= 1)

\* C25: CreateOrder fetches the user, fetches each product, inserts the order and publishes
\* the order history in that order, each step only after the earlier ones succeeded, and
\* when it returns an error, answered with status 500, no order document was inserted
\* and no order-history message was published
C25_NoPartialEffectOnFailure ==
    /\ StepsInOrder
    /\ (order.pc # "idle" /\ (order.err # "nil" \/ order.status = 500)) =>
           (order.inserted = 0 /\ order.published = 0)

-----------------------------------------------------------------------------
(* SpecClient: the kafkaClient, its retryConnect goroutine and the subscribers *)

\* the topics of a.kafkaClient.subscriptions: startConsumer runs one goroutine per topic
Topics == {"create_order_history", "orders"}

\* messages one subscriber fetches
MaxFetches == 2

\* k.reader[t]: the number of the reader stored for t, 0 for none (a nil Reader)
HasReader(reader, t) == reader.at[t] > 0

\* New: the client with its fields at their zero values; reader.nil: k.reader is the nil map
ZeroClient ==
    [ made     |-> TRUE,
      retry    |-> "none",
      dialer   |-> FALSE,
      conn     |-> FALSE,
      writer   |-> FALSE,
      reader   |-> [nil |-> TRUE, at |-> [t \in Topics |-> 0]],
      created  |-> [t \in Topics |-> 0],
      dropped  |-> {},
      sub      |-> [t \in Topics |-> "idle"],
      fetched  |-> [t \in Topics |-> 0],
      closed   |-> FALSE ]

\* the readers a map holds
ReadersIn(reader) == {<<t, reader.at[t]>> : t \in {x \in Topics : HasReader(reader, x)}}

\* k.reader = make(map[string]Reader): the readers of the map that was there are dropped
MakeReaderMap(k) ==
    [k EXCEPT !.reader  = [nil |-> FALSE, at |-> [t \in Topics |-> 0]],
              !.dropped = @ \cup ReadersIn(k.reader)]

\* initialize, when the dialer is set up and the brokers are reached
initialize(k) ==
    MakeReaderMap([k EXCEPT !.dialer = TRUE, !.conn = TRUE, !.writer = TRUE])

InitClient ==
    /\ loggers = [s \in Scopes |-> NoLogger]
    /\ sink = <<>>
    /\ calls = [s \in Scopes |-> <<>>]
    /\ disp = IdleDispatcher
    /\ hnd = IdleHandler
    /\ rw = <<>>
    /\ held = NothingHeld
    /\ word = NoWord
    /\ req = NoRequest
    /\ order = NoOrder
    /\ client = NoClient

ClientFrame == UNCHANGED <<loggers, sink, calls, disp, hnd, rw, held, word, req, order>>

\* New: initialize succeeds, or it fails and retryConnect is started
New ==
    /\ ~client.made
    /\ \E reached \in BOOLEAN :
          client' = IF reached THEN initialize(ZeroClient)
                    ELSE [ZeroClient EXCEPT !.retry = "sleep"]
    /\ ClientFrame

\* retryConnect: after the sleep, initialize fails again (the loop continues) or gets as
\* far as its assignments
RetryInitialize ==
    /\ client.made /\ ~client.closed
    /\ client.retry = "sleep"
    /\ \E reached \in BOOLEAN :
          client' = IF reached THEN [client EXCEPT !.retry = "dialer"] ELSE client
    /\ ClientFrame

\* initialize in retryConnect: k.dialer = dialer
AssignDialer ==
    /\ client.made /\ client.retry = "dialer"
    /\ client' = [client EXCEPT !.dialer = TRUE, !.retry = "conn"]
    /\ ClientFrame

\* initialize in retryConnect: k.conn = &multiConn{...}
AssignConn ==
    /\ client.made /\ client.retry = "conn"
    /\ client' = [client EXCEPT !.conn = TRUE, !.retry = "writer"]
    /\ ClientFrame

\* initialize in retryConnect: k.writer = createKafkaWriter(...)
AssignWriter ==
    /\ client.made /\ client.retry = "writer"
    /\ client' = [client EXCEPT !.writer = TRUE, !.retry = "reader"]
    /\ ClientFrame

\* initialize in retryConnect: k.reader = make(map[string]Reader); retryConnect returns
AssignReader ==
    /\ client.made /\ client.retry = "reader"
    /\ client' = [MakeReaderMap(client) EXCEPT !.retry = "done"]
    /\ ClientFrame

\* Subscribe(ctx, t) up to k.mu.Lock(): not connected, it returns errClientNotConnected
\* and startKafkaConsumer calls it again
SubscribeConnected(t) ==
    /\ client.made /\ ~client.closed
    /\ client.sub[t] = "idle"
    /\ client.fetched[t] < MaxFetches
    /\ client' = IF client.conn THEN [client EXCEPT !.sub[t] = "lock"] ELSE client
    /\ ClientFrame

\* Subscribe between k.mu.Lock() and k.mu.Unlock(): the map is made when it is nil, the
\* reader of the topic is made when the map has none
SubscribeLocked(t) ==
    /\ client.made
    /\ client.sub[t] = "lock"
    /\ LET k == IF client.reader.nil THEN [client EXCEPT !.reader.nil = FALSE] ELSE client
       IN  client' = IF ~HasReader(k.reader, t)
                     THEN [k EXCEPT !.reader.at[t] = k.created[t] + 1,
                                    !.created[t]   = @ + 1,
                                    !.sub[t]       = "fetch"]
                     ELSE [k EXCEPT !.sub[t] = "fetch"]
    /\ ClientFrame

\* Subscribe after the unlock: reader := k.reader[topic]; reader.FetchMessage(ctx) on a
\* nil Reader is a nil pointer dereference
SubscribeFetch(t) ==
    /\ client.made
    /\ client.sub[t] = "fetch"
    /\ client' = IF ~HasReader(client.reader, t)
                 THEN [client EXCEPT !.sub[t] = "panicked"]
                 ELSE [client EXCEPT !.sub[t] = "idle", !.fetched[t] = @ + 1]
    /\ ClientFrame

SubscribeChecks == \E t \in Topics : SubscribeConnected(t)

SubscribeLocks == \E t \in Topics : SubscribeLocked(t)

SubscribeFetches == \E t \in Topics : SubscribeFetch(t)

\* Close: the readers of k.reader are closed
Close ==
    /\ client.made /\ ~client.closed
    /\ \A t \in Topics : client.sub[t] \in {"idle", "panicked"}
    /\ client' = [client EXCEPT !.closed = TRUE]
    /\ ClientFrame

NextClient ==
    \/ New
    \/ RetryInitialize
    \/ AssignDialer
    \/ AssignConn
    \/ AssignWriter
    \/ AssignReader
    \/ SubscribeChecks
    \/ SubscribeLocks
    \/ SubscribeFetches
    \/ Close

SpecClient == InitClient /\ [][NextClient]_vars

\* C26: whatever the interleaving of the subscribers with retryConnect, the client makes
\* at most one reader per topic, and a reader stored in the map is not dropped or
\* replaced before Close
C26_OneReaderPerTopic ==
    client.made =>
        /\ \A t \in Topics : client.created[t] <= 1
        /\ client.dropped = {}

\* C26, as an action: a reader that is in the map stays in the map
C26_StoredReaderStays ==
    [][\A t \in Topics :
          (client.made /\ HasReader(client.reader, t)) =>
              client'.reader.at[t] = client.reader.at[t]]_vars

-----------------------------------------------------------------------------
(* The result of End and the key of SetSummary, on the calls of Spec *)

\* C27: a scope ended by End(code) with code >= 400, on which Update was never called,
\* writes no summary record whose appResult is "Success": "Success" is written for 2xx
\* codes only
C27_ErrorEndIsNotSuccess ==
    \A s \in Scopes :
        LET ends  == CallsOf(s, {"End"})
            lines == SummaryLinesOf(s)
        IN  \A i \in 1..Len(lines) :
                i <= Len(ends) =>
                    (lines[i].line.AppResult = "Success" => ends[i].arg \in 200..299)

\* C30: SetSummary records the tag under the (Node, Command) of the tag, whatever detail
\* lines were written before; a tag with an empty Command goes under the empty command
C30_KeyIsNodeAndCommand ==
    \A s \in Scopes :
        (loggers[s].created /\ calls[s][Len(calls[s])].op = "SetSummary") =>
            LET tag  == calls[s][Len(calls[s])].arg
                list == loggers[s].summaryLogAdditionalInfo
            IN  \E i \in 1..Len(list) :
                    /\ list[i].Node = tag.Node
                    /\ list[i].Command = tag.Command

-----------------------------------------------------------------------------
(* SpecEnd: two scopes that receive the same calls and are ended with the same code *)

\* calls made on each of the two scopes before End
MaxTwinCalls == 2

\* the codes handed to End: the ones the handlers use, and one with six digits
EndCodes == {200, 201, 204, 400, 404, 500, 100000}

InitEnd ==
    /\ loggers = [s \in Scopes |-> NoLogger]
    /\ sink = <<>>
    /\ calls = [s \in Scopes |-> <<>>]
    /\ disp = IdleDispatcher
    /\ hnd = IdleHandler
    /\ rw = <<>>
    /\ held = NothingHeld
    /\ word = NoWord
    /\ req = NoRequest
    /\ order = NoOrder
    /\ client = NoClient

TwinsOpen ==
    /\ loggers["s1"].created
    /\ CallsOf("s1", {"End"}) = <<>>

\* newContext, twice with the same arguments
TwinCreate ==
    /\ ~loggers["s1"].created
    /\ \E name \in ServiceNames, isHTTP \in BOOLEAN :
          Becomes(DoNewContext(DoNewContext(Cur, "s1", name, isHTTP), "s2", name, isHTTP))
    /\ NoDispatch

\* the same Info on both scopes
TwinInfo ==
    /\ TwinsOpen
    /\ NCalls("s1") < MaxTwinCalls
    /\ \E a \in LoggerActions, d \in Payloads :
          Becomes(DoEmit(DoEmit(Cur, "s1", "Info", "info", a, d), "s2", "Info", "info", a, d))
    /\ NoDispatch

\* the same SetSummary on both scopes
TwinSetSummary ==
    /\ TwinsOpen
    /\ NCalls("s1") < MaxTwinCalls
    /\ \E tag \in LogEventTags :
          Becomes(DoSetSummary(DoSetSummary(Cur, "s1", tag), "s2", tag))
    /\ NoDispatch

\* End with the same code on both scopes, each with a final message of its own
TwinEnd ==
    /\ TwinsOpen
    /\ \E code \in EndCodes, m1 \in EndMessages, m2 \in EndMessages :
          Becomes(DoEnd(DoEnd(Cur, "s1", code, m1), "s2", code, m2))
    /\ NoDispatch

NextEnd ==
    \/ TwinCreate
    \/ TwinInfo
    \/ TwinSetSummary
    \/ TwinEnd

SpecEnd == InitEnd /\ [][NextEnd]_vars

\* the decimal string of a status code, right-padded with '0' to five characters
PaddedToFive(code) ==
    CASE code = 200 -> "20000"
      [] code = 201 -> "20100"
      [] code = 204 -> "20400"
      [] code = 400 -> "40000"
      [] code = 404 -> "40400"
      [] code = 500 -> "50000"

\* C28: for every status code handed to End, End returns and writes the summary record;
\* for 200, 201, 204, 400, 404 and 500 its appResultHttpStatus is the decimal string of
\* the code and its appResultCode that string right-padded with '0' to five characters
C28_EndRendersEveryCode ==
    \A s \in Scopes :
        CallsOf(s, {"End"}) # <<>> =>
            LET code  == CallsOf(s, {"End"})[1].arg
                lines == SummaryLinesOf(s)
            IN  /\ Len(lines) = 1
                /\ code \in {200, 201, 204, 400, 404, 500} =>
                       /\ lines[1].line.AppResultHttpStatus = ToString(code)
                       /\ lines[1].line.AppResultCode = PaddedToFive(code)

\* C29: two scopes that differ only in the final message handed to End write different
\* summary records
C29_FinalMessageInSummary ==
    (/\ CallsOf("s1", {"End"}) # <<>>
     /\ CallsOf("s2", {"End"}) # <<>>
     /\ CallsOf("s1", {"End"})[1].key # CallsOf("s2", {"End"})[1].key
     /\ SummaryLinesOf("s1") # <<>>
     /\ SummaryLinesOf("s2") # <<>>) =>
        SummaryLinesOf("s1")[1].line # SummaryLinesOf("s2")[1].line

====
